---- MODULE Spec2Model ----
(***************************************************************************)
(* A model of the stat-aggregation and equipment-validation core of        *)
(* flashfreeze (src/flashfreeze/core): Drive Discs, W-Engines, the bonus   *)
(* aggregator, the total-stat compositor and the Agent aggregate.          *)
(*                                                                         *)
(* Conventions                                                             *)
(*  - An enum member is represented by its label (Stat.ATK_PERCENT is      *)
(*    "ATK%"), Python's None by the string "None" where a reference is     *)
(*    expected, and an optional object by a sequence of length 0 or 1.     *)
(*  - Every stat value is an integer number of TENTHS (HP 1000 is 10000,   *)
(*    CRIT Rate 2.4 is 24, ATK% 10.0 is 100).  The totals computed by      *)
(*    from_base_and_bonus are in units of 1/10000 so that the percent      *)
(*    formula is exact.  Rounding of binary64 floats is not modelled.      *)
(*  - A call that can raise returns a record with the exception type in    *)
(*    field exc ("None" when it returned normally).                        *)
(***************************************************************************)
EXTENDS Integers, Sequences, FiniteSets, TLC

VARIABLES
    call,         \* the last call made: its operation, arguments and outcome
    gear_discs,   \* the slot -> disc dict the caller holds for an Agent, as its items in insertion order
    gear_engine,  \* the W-Engine the caller holds for an Agent, <<>> for None
    agent         \* the caller's last Agent(...) construction: its arguments and outcome

vars == <<call, gear_discs, gear_engine, agent>>

(***************************************************************************)
(* core/common.py                                                          *)
(***************************************************************************)

\* class Stat(StringEnum): the members declared in common.py
Stat ==
    {"HP", "ATK", "DEF", "HP%", "ATK%", "DEF%", "Impact", "CRIT Rate", "CRIT DMG",
     "Anomaly Mastery", "Anomaly Proficiency", "PEN Ratio", "PEN", "Energy Regen",
     "Energy Generation Rate", "Physical DMG", "Fire DMG", "Ice DMG", "Electric DMG",
     "Ether DMG", "Unknown"}

\* class Rarity(StringEnum)
Rarity == {"C", "B", "A", "S", "Unknown"}

\* class Stat(StringEnum): the members in declaration order, each value as its characters
StatMembers ==
    <<[name |-> "HP", value |-> <<"H", "P">>],
      [name |-> "ATK", value |-> <<"A", "T", "K">>],
      [name |-> "DEF", value |-> <<"D", "E", "F">>],
      [name |-> "HP_PERCENT", value |-> <<"H", "P", "%">>],
      [name |-> "ATK_PERCENT", value |-> <<"A", "T", "K", "%">>],
      [name |-> "DEF_PERCENT", value |-> <<"D", "E", "F", "%">>],
      [name |-> "IMPACT", value |-> <<"I", "m", "p", "a", "c", "t">>],
      [name |-> "CRIT_RATE", value |-> <<"C", "R", "I", "T", " ", "R", "a", "t", "e">>],
      [name |-> "CRIT_DMG", value |-> <<"C", "R", "I", "T", " ", "D", "M", "G">>],
      [name |-> "ANOMALY_MASTERY", value |-> <<"A", "n", "o", "m", "a", "l", "y", " ", "M", "a", "s", "t", "e", "r", "y">>],
      [name |-> "ANOMALY_PROFICIENCY", value |-> <<"A", "n", "o", "m", "a", "l", "y", " ", "P", "r", "o", "f", "i", "c", "i", "e", "n", "c", "y">>],
      [name |-> "PEN_RATIO", value |-> <<"P", "E", "N", " ", "R", "a", "t", "i", "o">>],
      [name |-> "PEN", value |-> <<"P", "E", "N">>],
      [name |-> "ENERGY_REGEN", value |-> <<"E", "n", "e", "r", "g", "y", " ", "R", "e", "g", "e", "n">>],
      [name |-> "ENERGY_GENERATION_RATE", value |-> <<"E", "n", "e", "r", "g", "y", " ", "G", "e", "n", "e", "r", "a", "t", "i", "o", "n", " ", "R", "a", "t", "e">>],
      [name |-> "PHYSICAL_DMG", value |-> <<"P", "h", "y", "s", "i", "c", "a", "l", " ", "D", "M", "G">>],
      [name |-> "FIRE_DMG", value |-> <<"F", "i", "r", "e", " ", "D", "M", "G">>],
      [name |-> "ICE_DMG", value |-> <<"I", "c", "e", " ", "D", "M", "G">>],
      [name |-> "ELECTRIC_DMG", value |-> <<"E", "l", "e", "c", "t", "r", "i", "c", " ", "D", "M", "G">>],
      [name |-> "ETHER_DMG", value |-> <<"E", "t", "h", "e", "r", " ", "D", "M", "G">>],
      [name |-> "UNKNOWN", value |-> <<"U", "n", "k", "n", "o", "w", "n">>]>>

\* class Rarity(StringEnum): the members in declaration order, each value as its characters
RarityMembers ==
    <<[name |-> "C", value |-> <<"C">>],
      [name |-> "B", value |-> <<"B">>],
      [name |-> "A", value |-> <<"A">>],
      [name |-> "S", value |-> <<"S">>],
      [name |-> "UNKNOWN", value |-> <<"U", "n", "k", "n", "o", "w", "n">>]>>

\* The members of the enumeration classes the model parses into
EnumMembers == [Stat |-> StatMembers, Rarity |-> RarityMembers]

\* str.lower() on one character: the ASCII letters change, every other character is kept
UpperCase == <<"A", "B", "C", "D", "E", "F", "G", "H", "I", "J", "K", "L", "M", "N", "O", "P", "Q", "R", "S", "T", "U", "V", "W", "X", "Y", "Z">>
LowerCase == <<"a", "b", "c", "d", "e", "f", "g", "h", "i", "j", "k", "l", "m", "n", "o", "p", "q", "r", "s", "t", "u", "v", "w", "x", "y", "z">>
lower_char(c) == IF \E i \in 1..26 : UpperCase[i] = c THEN LowerCase[CHOOSE i \in 1..26 : UpperCase[i] = c] ELSE c

\* str.lower(): character by character
lower(value) == [i \in 1..Len(value) |-> lower_char(value[i])]

\* A value that is no str (None, as dict.get returns for a JSON null); it differs from every
\* string of the model, whose elements are single characters
NotAStr == <<"NoneType">>

\* StringEnum.from_string with the comparison of line 8 taken literally (mutation of from_string)
RECURSIVE from_string_CaseSensitive_from(_, _, _)
from_string_CaseSensitive_from(members, value, i) ==
    IF i > Len(members) THEN [exc |-> "None", val |-> "UNKNOWN"]
    ELSE IF value = NotAStr THEN [exc |-> "AttributeError", val |-> ""]
    ELSE IF members[i].value = value THEN [exc |-> "None", val |-> members[i].name]
    ELSE from_string_CaseSensitive_from(members, value, i + 1)

from_string_CaseSensitive(cls, value) == from_string_CaseSensitive_from(EnumMembers[cls], value, 1)

\* StringEnum.from_string, the loop from member i on: the first member whose lowered value
\* equals the lowered input is returned, cls.UNKNOWN when the loop ends; value.lower() is
\* evaluated in the first iteration and raises AttributeError when value is no str
RECURSIVE from_string_from(_, _, _)
from_string_from(members, value, i) ==
    IF i > Len(members) THEN [exc |-> "None", val |-> "UNKNOWN"]
    ELSE IF value = NotAStr THEN [exc |-> "AttributeError", val |-> ""]
    ELSE IF lower(members[i].value) = lower(value) THEN [exc |-> "None", val |-> members[i].name]
    ELSE from_string_from(members, value, i + 1)

\* StringEnum.from_string(cls, value): the name of the member returned, or the exception
from_string(cls, value) == from_string_from(EnumMembers[cls], value, 1)

(***************************************************************************)
(* Small helpers of the model                                              *)
(***************************************************************************)

Max(a, b) == IF a >= b THEN a ELSE b
Min(a, b) == IF a <= b THEN a ELSE b

\* All sequences over S of length at most n
SeqsUpTo(S, n) == UNION {[1..k -> S] : k \in 0..n}

\* An exception message: its fixed text and the values formatted into it
Msg(text, slot, stat, n) == [text |-> text, slot |-> slot, stat |-> stat, n |-> n]
NoMsg == Msg("", 0, "", 0)

\* The outcome of a step that raises, and of one that does not
Raised(type, msg) == [exc |-> type, msg |-> msg]
NoError == [exc |-> "None", msg |-> NoMsg]

(***************************************************************************)
(* core/drive_disc_data.py: the Drive Disc rules                           *)
(***************************************************************************)

POSSIBLE_MAIN_STATS_PER_SLOT ==
    [slot \in 1..6 |->
        CASE slot = 1 -> <<"HP">>
          [] slot = 2 -> <<"ATK">>
          [] slot = 3 -> <<"DEF">>
          [] slot = 4 -> <<"HP%", "ATK%", "DEF%", "CRIT Rate", "CRIT DMG", "Anomaly Proficiency">>
          [] slot = 5 -> <<"HP%", "ATK%", "DEF%", "PEN Ratio", "Physical DMG", "Fire DMG",
                           "Ice DMG", "Electric DMG", "Ether DMG">>
          [] slot = 6 -> <<"HP%", "ATK%", "DEF%", "Anomaly Mastery", "Impact", "Energy Regen">>]

POSSIBLE_SUBSTATS ==
    {"HP", "ATK", "DEF", "HP%", "ATK%", "DEF%", "PEN", "CRIT Rate", "CRIT DMG",
     "Anomaly Proficiency"}

MAX_LEVEL_PER_RARITY == [r \in {"B", "A", "S"} |-> CASE r = "B" -> 9 [] r = "A" -> 12 [] r = "S" -> 15]

MAX_SUBSTATS_COUNT == 4

MAX_SUBSTAT_ROLLS == 5

\* SubStatInstance(stat_type, rolls): a dataclass without validation of its own
SubStatInstance(stat_type, rolls) == [cls |-> "SubStatInstance", stat_type |-> stat_type, rolls |-> rolls]

\* An element of a sub_stats list that is no SubStatInstance
NotASubStat == [cls |-> "str", stat_type |-> "", rolls |-> 0]

\* Variant of MainStatsForSlot that looks the candidates up without regard to the slot
MainStatsForSlot_IgnoringSlot(slot) ==
    IF slot \in DOMAIN POSSIBLE_MAIN_STATS_PER_SLOT THEN POSSIBLE_MAIN_STATS_PER_SLOT[4] ELSE <<>>

\* POSSIBLE_MAIN_STATS_PER_SLOT.get(self.slot, [])
MainStatsForSlot(slot) ==
    IF slot \in DOMAIN POSSIBLE_MAIN_STATS_PER_SLOT THEN POSSIBLE_MAIN_STATS_PER_SLOT[slot] ELSE <<>>

InList(x, list) == \E i \in 1..Len(list) : list[i] = x

\* Variant of ClampDiscLevel that bounds the level from above only
ClampDiscLevel_NoFloor(rarity, level) ==
    LET max_level == IF rarity \in DOMAIN MAX_LEVEL_PER_RARITY THEN MAX_LEVEL_PER_RARITY[rarity] ELSE 0
    IN  Min(level, max_level)

\* MAX_LEVEL_PER_RARITY.get(self.rarity, 0); self.level = max(0, min(self.level, max_level))
ClampDiscLevel(rarity, level) ==
    LET max_level == IF rarity \in DOMAIN MAX_LEVEL_PER_RARITY THEN MAX_LEVEL_PER_RARITY[rarity] ELSE 0
    IN  Max(0, Min(level, max_level))

\* Variant of ValidateSubStats that checks each roll count but not their sum
RECURSIVE ValidateSubStats_NoTotalCheck(_, _, _, _, _)
ValidateSubStats_NoTotalCheck(sub_stats, main_stat_type, i, sub_stat_types, total_sub_rolls) ==
    IF i > Len(sub_stats)
    THEN NoError
    ELSE LET sub == sub_stats[i] IN
         IF sub.cls # "SubStatInstance"
         THEN Raised("TypeError", Msg("sub_stats list must contain SubStatInstance objects", 0, "", i - 1))
         ELSE IF sub.stat_type = main_stat_type
         THEN Raised("ValueError", Msg("Substat cannot be the same as main stat", 0, sub.stat_type, 0))
         ELSE IF sub.stat_type \notin POSSIBLE_SUBSTATS
         THEN Raised("ValueError", Msg("Invalid substat type", 0, sub.stat_type, 0))
         ELSE IF sub.stat_type \in sub_stat_types
         THEN Raised("ValueError", Msg("Duplicate substat type found", 0, sub.stat_type, 0))
         ELSE IF ~(0 <= sub.rolls /\ sub.rolls <= MAX_SUBSTAT_ROLLS)
         THEN Raised("ValueError", Msg("Invalid number of rolls", 0, sub.stat_type, sub.rolls))
         ELSE ValidateSubStats_NoTotalCheck(sub_stats, main_stat_type, i + 1,
                                            sub_stat_types \cup {sub.stat_type}, total_sub_rolls + sub.rolls)

\* The loop "for i, sub in enumerate(self.sub_stats)" of DriveDisc.__post_init__ from
\* index i on, with the loop's two accumulators, and the total check after the loop.
RECURSIVE ValidateSubStats(_, _, _, _, _)
ValidateSubStats(sub_stats, main_stat_type, i, sub_stat_types, total_sub_rolls) ==
    IF i > Len(sub_stats)
    THEN IF total_sub_rolls > MAX_SUBSTAT_ROLLS
         THEN Raised("ValueError", Msg("Total substat rolls exceed maximum allowed", 0, "", total_sub_rolls))
         ELSE NoError
    ELSE LET sub == sub_stats[i] IN
         IF sub.cls # "SubStatInstance"
         THEN Raised("TypeError", Msg("sub_stats list must contain SubStatInstance objects", 0, "", i - 1))
         ELSE IF sub.stat_type = main_stat_type
         THEN Raised("ValueError", Msg("Substat cannot be the same as main stat", 0, sub.stat_type, 0))
         ELSE IF sub.stat_type \notin POSSIBLE_SUBSTATS
         THEN Raised("ValueError", Msg("Invalid substat type", 0, sub.stat_type, 0))
         ELSE IF sub.stat_type \in sub_stat_types
         THEN Raised("ValueError", Msg("Duplicate substat type found", 0, sub.stat_type, 0))
         ELSE IF ~(0 <= sub.rolls /\ sub.rolls <= MAX_SUBSTAT_ROLLS)
         THEN Raised("ValueError", Msg("Invalid number of rolls", 0, sub.stat_type, sub.rolls))
         ELSE ValidateSubStats(sub_stats, main_stat_type, i + 1,
                               sub_stat_types \cup {sub.stat_type}, total_sub_rolls + sub.rolls)

\* Variant of DriveDiscPostInit without the check of the number of substats
DriveDiscPostInit_NoCountCheck(slot, main_stat_type, sub_stats) ==
    IF ~(1 <= slot /\ slot <= 6)
    THEN Raised("ValueError", Msg("Invalid slot number", slot, "", 0))
    ELSE IF ~InList(main_stat_type, MainStatsForSlot(slot))
    THEN Raised("ValueError", Msg("Invalid main stat for slot", slot, main_stat_type, 0))
    ELSE ValidateSubStats(sub_stats, main_stat_type, 1, {}, 0)

\* Variant of DriveDiscPostInit that validates the slot only
DriveDiscPostInit_SlotOnly(slot, main_stat_type, sub_stats) ==
    IF ~(1 <= slot /\ slot <= 6)
    THEN Raised("ValueError", Msg("Invalid slot number", slot, "", 0))
    ELSE NoError

\* The checks of DriveDisc.__post_init__, in the order of the code (the level clamp that
\* precedes them cannot raise and is applied in DriveDisc below).
DriveDiscPostInit(slot, main_stat_type, sub_stats) ==
    IF ~(1 <= slot /\ slot <= 6)
    THEN Raised("ValueError", Msg("Invalid slot number", slot, "", 0))
    ELSE IF ~InList(main_stat_type, MainStatsForSlot(slot))
    THEN Raised("ValueError", Msg("Invalid main stat for slot", slot, main_stat_type, 0))
    ELSE IF Len(sub_stats) > MAX_SUBSTATS_COUNT
    THEN Raised("ValueError", Msg("Cannot have more than MAX_SUBSTATS_COUNT substats", 0, "", MAX_SUBSTATS_COUNT))
    ELSE ValidateSubStats(sub_stats, main_stat_type, 1, {}, 0)

\* DriveDisc(set_data, rarity, level, slot, main_stat_type, sub_stats): the outcome of the
\* constructor call.  obj is <<the disc>> when the call returned, <<>> when it raised: a
\* raising __post_init__ leaves the caller without any object.
DriveDisc(set_data, rarity, level, slot, main_stat_type, sub_stats) ==
    LET check == DriveDiscPostInit(slot, main_stat_type, sub_stats) IN
    [exc |-> check.exc,
     msg |-> check.msg,
     obj |-> IF check.exc = "None"
             THEN <<[set_data |-> set_data, rarity |-> rarity, level |-> ClampDiscLevel(rarity, level),
                     slot |-> slot, main_stat_type |-> main_stat_type, sub_stats |-> sub_stats]>>
             ELSE <<>>]

(***************************************************************************)
(* game_data_loader.py: the scaling tables.  The JSON files are data, not  *)
(* code; the model fixes one pair of tables (values in tenths) that, like  *)
(* the real files, leaves some entries out: main-stat values exist only at *)
(* every third level, rarities C and Unknown have no entries, and a few    *)
(* (stat, rarity) pairs are missing.                                       *)
(***************************************************************************)

\* Stat.get_damage_bonus_stats(): the five elemental DMG% kinds
get_damage_bonus_stats == {"Physical DMG", "Fire DMG", "Ice DMG", "Electric DMG", "Ether DMG"}

\* drive_discs_substat_values.json: stat label -> rarity label -> base value
SubstatTable ==
    [stat \in POSSIBLE_SUBSTATS |->
        CASE stat = "HP"        -> [S |-> 1120, A |-> 790, B |-> 390]
          [] stat = "ATK"       -> [S |-> 190, A |-> 150, B |-> 75]
          [] stat = "DEF"       -> [S |-> 150, A |-> 100, B |-> 50]
          [] stat = "HP%"       -> [S |-> 30, A |-> 20, B |-> 10]
          [] stat = "ATK%"      -> [S |-> 30, A |-> 20, B |-> 10]
          [] stat = "DEF%"      -> [S |-> 48, A |-> 32, B |-> 16]
          [] stat = "PEN"       -> [S |-> 90, A |-> 60]
          [] stat = "CRIT Rate" -> [S |-> 24, A |-> 16, B |-> 8]
          [] stat = "CRIT DMG"  -> [S |-> 48, A |-> 32, B |-> 16]
          [] stat = "Anomaly Proficiency" -> [S |-> 95, A |-> 65, B |-> 35]]

\* drive_discs_mainstat_values.json: table key -> value at rarity S, level 15
MainStatTable ==
    [key \in {"HP", "ATK", "DEF", "HP%", "ATK%", "DEF%", "CRIT Rate", "CRIT DMG",
              "Anomaly Proficiency", "PEN Ratio", "DMG", "Anomaly Mastery", "Impact"} |->
        CASE key = "HP" -> 22000 [] key = "ATK" -> 3160 [] key = "DEF" -> 1840
          [] key = "HP%" -> 300 [] key = "ATK%" -> 300 [] key = "DEF%" -> 480
          [] key = "CRIT Rate" -> 240 [] key = "CRIT DMG" -> 480
          [] key = "Anomaly Proficiency" -> 920 [] key = "PEN Ratio" -> 240
          [] key = "DMG" -> 300 [] key = "Anomaly Mastery" -> 300 [] key = "Impact" -> 180]

\* The entry of the main-stat file at [stat_key][rarity_key][level_key], <<>> when absent:
\* rarity A scales S by 2/3 and B by 1/3, level 0 holds a quarter of the maximum.
MainStatEntry(stat_key, rarity_key, level) ==
    IF /\ stat_key \in DOMAIN MainStatTable
       /\ rarity_key \in DOMAIN MAX_LEVEL_PER_RARITY
       /\ level \in 0..MAX_LEVEL_PER_RARITY[rarity_key]
       /\ level % 3 = 0
       /\ ~(stat_key = "Impact" /\ rarity_key = "B")
    THEN LET top == MAX_LEVEL_PER_RARITY[rarity_key]
             at_max == (MainStatTable[stat_key] * (top \div 3 - 2)) \div 3
         IN  <<(at_max * (top + 3 * level)) \div (4 * top)>>
    ELSE <<>>

\* Variant of get_drive_main_stat_value that looks every kind up under its own label
get_drive_main_stat_value_OwnLabel(rarity, stat_type, level) ==
    MainStatEntry(stat_type, rarity, level)

\* gdl.get_drive_main_stat_value(rarity, stat_type, level): <<value>> or <<>> for None
get_drive_main_stat_value(rarity, stat_type, level) ==
    LET stat_key == IF stat_type \in get_damage_bonus_stats THEN "DMG" ELSE stat_type
    IN  MainStatEntry(stat_key, rarity, level)

\* gdl.get_drive_substat_base_value(rarity, stat_type): <<value>> or <<>> for None
get_drive_substat_base_value(rarity, stat_type) ==
    IF stat_type \in DOMAIN SubstatTable /\ rarity \in DOMAIN SubstatTable[stat_type]
    THEN <<SubstatTable[stat_type][rarity]>>
    ELSE <<>>

\* Variant of get_value that uses the roll count as it is
get_value_Unclamped(sub, rarity) ==
    LET base_value == get_drive_substat_base_value(rarity, sub.stat_type) IN
    IF base_value = <<>> THEN 0 ELSE base_value[1] * (sub.rolls + 1)

\* Variant of get_value that multiplies the base value by the roll count itself
get_value_RollsAsFactor(sub, rarity) ==
    LET base_value == get_drive_substat_base_value(rarity, sub.stat_type) IN
    IF base_value = <<>>
    THEN 0
    ELSE LET actual_rolls == Min(sub.rolls, MAX_SUBSTAT_ROLLS)
         IN  base_value[1] * actual_rolls

\* SubStatInstance.get_value(rarity)
get_value(sub, rarity) ==
    LET base_value == get_drive_substat_base_value(rarity, sub.stat_type) IN
    IF base_value = <<>>
    THEN 0
    ELSE LET actual_rolls == Min(sub.rolls, MAX_SUBSTAT_ROLLS)
         IN  base_value[1] * (actual_rolls + 1)

\* Variant of get_main_stat_value that gives up when the exact level has no entry
get_main_stat_value_NoFallback(disc) ==
    LET value == get_drive_main_stat_value(disc.rarity, disc.main_stat_type, disc.level) IN
    IF value # <<>> THEN value[1] ELSE 0

\* DriveDisc.get_main_stat_value()
get_main_stat_value(disc) ==
    LET value == get_drive_main_stat_value(disc.rarity, disc.main_stat_type, disc.level) IN
    IF value # <<>>
    THEN value[1]
    ELSE IF disc.rarity \in DOMAIN MAX_LEVEL_PER_RARITY
         THEN LET at_max == get_drive_main_stat_value(disc.rarity, disc.main_stat_type,
                                                      MAX_LEVEL_PER_RARITY[disc.rarity])
              IN  IF at_max = <<>> THEN 0 ELSE at_max[1]
         ELSE 0

\* DriveDisc.get_all_substat_values(): the dict {stat: value} as its items in insertion
\* order; a later entry of the same stat overwrites the value and keeps the position.
RECURSIVE SubstatItems(_, _, _)
SubstatItems(sub_stats, rarity, i) ==
    IF i = 0 THEN <<>>
    ELSE LET before == SubstatItems(sub_stats, rarity, i - 1)
             item == <<sub_stats[i].stat_type, get_value(sub_stats[i], rarity)>>
         IN  IF \E j \in 1..Len(before) : before[j][1] = item[1]
             THEN [j \in 1..Len(before) |-> IF before[j][1] = item[1] THEN item ELSE before[j]]
             ELSE Append(before, item)

get_all_substat_values(disc) == SubstatItems(disc.sub_stats, disc.rarity, Len(disc.sub_stats))

(***************************************************************************)
(* core/w_engine_data.py                                                   *)
(***************************************************************************)

\* The static W-Engine records (WEngineData) the model knows, by name: advanced_stat is
\* <<>> for None, else <<[stat, value]>>.
WEngineArena ==
    [name \in {"Steel Cushion", "Bare Engine", "Half Engine"} |->
        CASE name = "Steel Cushion" -> [base_atk |-> 6840, advanced_stat |-> <<[stat |-> "CRIT Rate", value |-> 240]>>]
          [] name = "Bare Engine"   -> [base_atk |-> 4200, advanced_stat |-> <<>>]
          [] name = "Half Engine"   -> [base_atk |-> 1000, advanced_stat |-> <<>>]]

\* The passive blocks (WEnginePassive) of the W-Engines, <<>> for None.  description is the
\* text cut at its placeholders, so that a placeholder is a piece of its own; values maps a
\* phase key to the items <<key, value>> of its dict (values in tenths).  "Steel Cushion" is
\* the tests' record, "Half Engine" has values for phase 1 only and a placeholder without
\* a value.
WEnginePassiveArena ==
    [name \in {"Steel Cushion", "Bare Engine", "Half Engine"} |->
        CASE name = "Steel Cushion" ->
                <<[description |-> <<"Increases Physical DMG by ", "{physical_dmg}",
                                     "%. The equipper's DMG increases by ", "{back_dmg}",
                                     "% when hitting the enemy from behind.">>,
                   values |-> [phase_key \in {"phase_1", "phase_2", "phase_3", "phase_4", "phase_5"} |->
                       CASE phase_key = "phase_1" -> <<<<"physical_dmg", 200>>, <<"back_dmg", 250>>>>
                         [] phase_key = "phase_2" -> <<<<"physical_dmg", 250>>, <<"back_dmg", 315>>>>
                         [] phase_key = "phase_3" -> <<<<"physical_dmg", 300>>, <<"back_dmg", 380>>>>
                         [] phase_key = "phase_4" -> <<<<"physical_dmg", 350>>, <<"back_dmg", 440>>>>
                         [] phase_key = "phase_5" -> <<<<"physical_dmg", 400>>, <<"back_dmg", 500>>>>]]>>
          [] name = "Bare Engine" -> <<>>
          [] name = "Half Engine" ->
                <<[description |-> <<"Value is ", "{val1}", " and ", "{val2}">>,
                   values |-> [phase_key \in {"phase_1"} |-> <<<<"val1", 100>>>>]]>>]

\* str(value) of a value in tenths: a whole number prints without a fraction
Digit(d) ==
    CASE d = 0 -> "0" [] d = 1 -> "1" [] d = 2 -> "2" [] d = 3 -> "3" [] d = 4 -> "4"
      [] d = 5 -> "5" [] d = 6 -> "6" [] d = 7 -> "7" [] d = 8 -> "8" [] d = 9 -> "9"

RECURSIVE Decimal(_)
Decimal(n) == IF n < 10 THEN Digit(n) ELSE Decimal(n \div 10) \o Digit(n % 10)

StrOf(value) ==
    IF value % 10 = 0 THEN Decimal(value \div 10)
    ELSE Decimal(value \div 10) \o "." \o Digit(value % 10)

\* f"phase_{phase}"
PhaseKey(phase) ==
    IF phase < 0 THEN "phase_-" \o Decimal(-phase) ELSE "phase_" \o Decimal(phase)

\* dict.get(key) on the items of a dict: <<value>>, or <<>> for None
DictGet(items, key) ==
    IF \E i \in 1..Len(items) : items[i][1] = key
    THEN <<items[CHOOSE i \in 1..Len(items) : items[i][1] = key][2]>>
    ELSE <<>>

\* WEnginePassive.get_passive_value(phase, value_key): <<value>>, or <<>> for None
WEnginePassive_get_passive_value(passive, phase, value_key) ==
    IF ~(1 <= phase /\ phase <= 5) THEN <<>>
    ELSE IF PhaseKey(phase) \in DOMAIN passive.values
         THEN DictGet(passive.values[PhaseKey(phase)], value_key)
         ELSE <<>>

\* The pieces of a text joined
RECURSIVE Join(_)
Join(pieces) == IF pieces = <<>> THEN "" ELSE Head(pieces) \o Join(Tail(pieces))

\* formatted_desc.replace("{" + key + "}", str(value)) for the items from the i-th on
RECURSIVE ReplaceItems(_, _, _)
ReplaceItems(pieces, items, i) ==
    IF i > Len(items) THEN pieces
    ELSE ReplaceItems([j \in 1..Len(pieces) |->
                          IF pieces[j] = "{" \o items[i][1] \o "}" THEN StrOf(items[i][2]) ELSE pieces[j]],
                      items, i + 1)

\* WEnginePassive.get_formatted_description(phase): <<text>> (the records of the arena all
\* have a description)
get_formatted_description(passive, phase) ==
    IF ~(1 <= phase /\ phase <= 5) THEN <<Join(passive.description)>>
    ELSE IF PhaseKey(phase) \notin DOMAIN passive.values
         THEN <<Join(passive.description)>>
         ELSE <<Join(ReplaceItems(passive.description, passive.values[PhaseKey(phase)], 1))>>

\* Variant of EquippedWEngine that stores the phase as given
EquippedWEngine_PhaseAsGiven(wengine_data, level, modification, phase) ==
    LET level1 == Max(1, Min(level, 60))
        modification1 == Max(0, Min(modification, 5))
        min_level == modification1 * 10
        max_level == min_level + 10
    IN  [wengine_data |-> wengine_data,
         level |-> Max(min_level, Min(level1, max_level)),
         modification |-> modification1,
         phase |-> phase]

\* Variant of EquippedWEngine that leaves out the adjustment to the modification's band
EquippedWEngine_NoBandClamp(wengine_data, level, modification, phase) ==
    [wengine_data |-> wengine_data,
     level |-> Max(1, Min(level, 60)),
     modification |-> Max(0, Min(modification, 5)),
     phase |-> Max(1, Min(phase, 5))]

\* EquippedWEngine(wengine_data, level, modification, phase) after __post_init__
EquippedWEngine(wengine_data, level, modification, phase) ==
    LET level1 == Max(1, Min(level, 60))
        modification1 == Max(0, Min(modification, 5))
        phase1 == Max(1, Min(phase, 5))
        min_level == modification1 * 10
        max_level == min_level + 10
    IN  [wengine_data |-> wengine_data,
         level |-> IF ~(min_level <= level1 /\ level1 <= max_level)
                   THEN Max(min_level, Min(level1, max_level))
                   ELSE level1,
         modification |-> modification1,
         phase |-> phase1]

\* EquippedWEngine.get_current_base_atk(): the stored value, whatever the level
get_current_base_atk(engine) == WEngineArena[engine.wengine_data].base_atk

\* EquippedWEngine.get_advanced_stat(): <<>> for None, else <<[stat, value]>>
get_advanced_stat(engine) == WEngineArena[engine.wengine_data].advanced_stat

\* EquippedWEngine.get_passive_value(value_key): <<value>>, or <<>> for None
get_passive_value(engine, value_key) ==
    IF WEnginePassiveArena[engine.wengine_data] # <<>>
    THEN WEnginePassive_get_passive_value(WEnginePassiveArena[engine.wengine_data][1], engine.phase, value_key)
    ELSE <<>>

\* EquippedWEngine.get_formatted_passive_description(): <<text>>, or <<>> for None
get_formatted_passive_description(engine) ==
    IF WEnginePassiveArena[engine.wengine_data] # <<>>
    THEN get_formatted_description(WEnginePassiveArena[engine.wengine_data][1], engine.phase)
    ELSE <<>>

(***************************************************************************)
(* core/drive_disc_set_data.py                                             *)
(***************************************************************************)

\* Stat.from_string on the labels the set data below uses: the member with that label,
\* else Stat.UNKNOWN
StatFromLabel(label) == IF label \in Stat THEN label ELSE "Unknown"

\* DriveDisc2PieceBonus.from_dict(data).  data is <<>> when the "2-piece" entry is no dict,
\* else <<[stat, value]>> where value is a JSON number, a JSON string that float() refuses,
\* or absent.  The result is <<>> for None, else <<the bonus>>; on a parse error the code
\* returns the class itself, whose attributes read as the dataclass defaults.
DriveDisc2PieceBonus_from_dict(data) ==
    IF data = <<>> THEN <<>>
    ELSE LET stat_str == data[1].stat
             stat_obj == IF stat_str # "" THEN StatFromLabel(stat_str) ELSE "None"
             value_val == IF data[1].value.kind = "number" THEN <<data[1].value.num>> ELSE <<>>
         IN  IF data[1].value.kind = "string"
             THEN <<[is_class |-> TRUE, simple_stat |-> "None", complex_stat |-> "None", value |-> <<>>]>>
             ELSE IF stat_obj # "None" /\ stat_obj # "Unknown"
             THEN <<[is_class |-> FALSE, simple_stat |-> stat_obj, complex_stat |-> "None", value |-> value_val]>>
             ELSE <<[is_class |-> FALSE, simple_stat |-> "None", complex_stat |-> stat_str, value |-> value_val]>>

\* DriveDisc4PieceBonus.from_dict(data): <<>> for None, else <<the bonus>> (description and
\* values are kept as given)
DriveDisc4PieceBonus_from_dict(data) == data

\* drive_discs.json: the raw records of the sets the model knows.  Values are in tenths.
SetJson ==
    [name \in {"Hormone Punk", "Woodpecker Electro", "Shockstar Disco", "Proto Punk", "Odd Set"} |->
        CASE name = "Hormone Punk" ->
                [two |-> <<[stat |-> "ATK%", value |-> [kind |-> "number", num |-> 100]]>>,
                 four |-> <<[description |-> "ATK +{atk}% on entering combat", values |-> <<<<"atk", 250>>>>]>>]
          [] name = "Woodpecker Electro" ->
                [two |-> <<[stat |-> "CRIT Rate", value |-> [kind |-> "number", num |-> 80]]>>,
                 four |-> <<[description |-> "ATK +{atk}% on a critical hit", values |-> <<<<"atk", 90>>>>]>>]
          [] name = "Shockstar Disco" ->
                [two |-> <<[stat |-> "Daze", value |-> [kind |-> "number", num |-> 60]]>>,
                 four |-> <<[description |-> "Daze +{daze}%", values |-> <<<<"daze", 200>>>>]>>]
          [] name = "Proto Punk" ->
                [two |-> <<>>,
                 four |-> <<[description |-> "DMG +{dmg}% after an assist", values |-> <<<<"dmg", 150>>>>]>>]
          [] name = "Odd Set" ->
                [two |-> <<[stat |-> "HP", value |-> [kind |-> "string", num |-> 0]]>>,
                 four |-> <<>>]]

\* DriveDiscSetData.from_dict(name, data) for every set of the file: the shared set records
SetArena ==
    [name \in DOMAIN SetJson |->
        [name |-> name,
         bonus_2pc |-> DriveDisc2PieceBonus_from_dict(SetJson[name].two),
         bonus_4pc |-> DriveDisc4PieceBonus_from_dict(SetJson[name].four)]]

\* hash(set_data) as dict key: DriveDiscSetData is a dataclass with the default eq=True and
\* without frozen=True or unsafe_hash=True, so its __hash__ is None and a set record
\* cannot be a dict key; None can.
Hashable(set_data) == set_data = "None"

(***************************************************************************)
(* core/agent_data.py: the bonus record and the total-stat compositor      *)
(***************************************************************************)

\* The members of Stat that AgentBonusStats.add_stat matches on but common.py does not
\* declare (IMPACT_PERCENT, ANOMALY_MASTERY_PERCENT, ENERGY_REGEN_PERCENT, ENERGY_LIMIT)
StatUndeclared == {"Impact%", "Anomaly Mastery%", "Energy Regen%", "Energy Limit"}

\* AgentBaseStats(...): the dataclass defaults are all zero
AgentBaseStats(hp, atk, defense, impact, anomaly_mastery, anomaly_proficiency, pen_ratio, energy_regen, energy_limit, crit_rate, crit_dmg) ==
    [hp |-> hp, atk |-> atk, defense |-> defense, impact |-> impact,
     anomaly_mastery |-> anomaly_mastery, anomaly_proficiency |-> anomaly_proficiency,
     pen_ratio |-> pen_ratio, energy_regen |-> energy_regen, energy_limit |-> energy_limit,
     crit_rate |-> crit_rate, crit_dmg |-> crit_dmg]

\* AgentBonusStats(): every field zero
AgentBonusStats ==
    [hp |-> 0, hp_percent |-> 0, atk |-> 0, atk_percent |-> 0, defense |-> 0, def_percent |-> 0,
     impact |-> 0, impact_percent |-> 0, crit_rate |-> 0, crit_dmg |-> 0, anomaly_mastery |-> 0,
     anomaly_mastery_percent |-> 0, anomaly_proficiency |-> 0, pen_ratio |-> 0, pen |-> 0,
     energy_regen |-> 0, energy_regen_percent |-> 0, energy_generation_rate |-> 0,
     energy_limit |-> 0, physical_dmg |-> 0, fire_dmg |-> 0, ice_dmg |-> 0, electric_dmg |-> 0,
     ether_dmg |-> 0]

\* int(value) on a value in tenths: truncation towards zero
IntOf(value) == IF value >= 0 THEN (value \div 10) * 10 ELSE -(((-value) \div 10) * 10)

\* Variant of add_stat whose default case counts the value as HP instead of only warning
add_stat_DefaultCounted(bonus_stats, stat, value) ==
    CASE stat = "HP"   -> [bonus_stats EXCEPT !.hp = @ + IntOf(value)]
      [] stat = "HP%"  -> [bonus_stats EXCEPT !.hp_percent = @ + value]
      [] stat = "ATK"  -> [bonus_stats EXCEPT !.atk = @ + IntOf(value)]
      [] stat = "ATK%" -> [bonus_stats EXCEPT !.atk_percent = @ + value]
      [] stat = "DEF"  -> [bonus_stats EXCEPT !.defense = @ + IntOf(value)]
      [] stat = "DEF%" -> [bonus_stats EXCEPT !.def_percent = @ + value]
      [] stat = "Impact"    -> [bonus_stats EXCEPT !.impact = @ + IntOf(value)]
      [] stat = "Impact%"   -> [bonus_stats EXCEPT !.impact_percent = @ + value]
      [] stat = "CRIT Rate" -> [bonus_stats EXCEPT !.crit_rate = @ + value]
      [] stat = "CRIT DMG"  -> [bonus_stats EXCEPT !.crit_dmg = @ + value]
      [] stat = "Anomaly Mastery"  -> [bonus_stats EXCEPT !.anomaly_mastery = @ + IntOf(value)]
      [] stat = "Anomaly Mastery%" -> [bonus_stats EXCEPT !.anomaly_mastery_percent = @ + value]
      [] stat = "Anomaly Proficiency" -> [bonus_stats EXCEPT !.anomaly_proficiency = @ + IntOf(value)]
      [] stat = "PEN Ratio" -> [bonus_stats EXCEPT !.pen_ratio = @ + value]
      [] stat = "PEN"       -> [bonus_stats EXCEPT !.pen = @ + IntOf(value)]
      [] stat = "Energy Regen"  -> [bonus_stats EXCEPT !.energy_regen = @ + value]
      [] stat = "Energy Regen%" -> [bonus_stats EXCEPT !.energy_regen_percent = @ + value]
      [] stat = "Energy Generation Rate" -> [bonus_stats EXCEPT !.energy_generation_rate = @ + value]
      [] stat = "Energy Limit" -> [bonus_stats EXCEPT !.energy_limit = @ + IntOf(value)]
      [] stat = "Physical DMG" -> [bonus_stats EXCEPT !.physical_dmg = @ + value]
      [] stat = "Fire DMG"     -> [bonus_stats EXCEPT !.fire_dmg = @ + value]
      [] stat = "Ice DMG"      -> [bonus_stats EXCEPT !.ice_dmg = @ + value]
      [] stat = "Electric DMG" -> [bonus_stats EXCEPT !.electric_dmg = @ + value]
      [] stat = "Ether DMG"    -> [bonus_stats EXCEPT !.ether_dmg = @ + value]
      [] OTHER -> [bonus_stats EXCEPT !.hp = @ + IntOf(value)]

\* Variant of add_stat whose ATK case assigns (self.atk = int(value)) instead of accumulating
add_stat_AtkAssigned(bonus_stats, stat, value) ==
    CASE stat = "HP"   -> [bonus_stats EXCEPT !.hp = @ + IntOf(value)]
      [] stat = "HP%"  -> [bonus_stats EXCEPT !.hp_percent = @ + value]
      [] stat = "ATK"  -> [bonus_stats EXCEPT !.atk = IntOf(value)]
      [] stat = "ATK%" -> [bonus_stats EXCEPT !.atk_percent = @ + value]
      [] stat = "DEF"  -> [bonus_stats EXCEPT !.defense = @ + IntOf(value)]
      [] stat = "DEF%" -> [bonus_stats EXCEPT !.def_percent = @ + value]
      [] stat = "Impact"    -> [bonus_stats EXCEPT !.impact = @ + IntOf(value)]
      [] stat = "Impact%"   -> [bonus_stats EXCEPT !.impact_percent = @ + value]
      [] stat = "CRIT Rate" -> [bonus_stats EXCEPT !.crit_rate = @ + value]
      [] stat = "CRIT DMG"  -> [bonus_stats EXCEPT !.crit_dmg = @ + value]
      [] stat = "Anomaly Mastery"  -> [bonus_stats EXCEPT !.anomaly_mastery = @ + IntOf(value)]
      [] stat = "Anomaly Mastery%" -> [bonus_stats EXCEPT !.anomaly_mastery_percent = @ + value]
      [] stat = "Anomaly Proficiency" -> [bonus_stats EXCEPT !.anomaly_proficiency = @ + IntOf(value)]
      [] stat = "PEN Ratio" -> [bonus_stats EXCEPT !.pen_ratio = @ + value]
      [] stat = "PEN"       -> [bonus_stats EXCEPT !.pen = @ + IntOf(value)]
      [] stat = "Energy Regen"  -> [bonus_stats EXCEPT !.energy_regen = @ + value]
      [] stat = "Energy Regen%" -> [bonus_stats EXCEPT !.energy_regen_percent = @ + value]
      [] stat = "Energy Generation Rate" -> [bonus_stats EXCEPT !.energy_generation_rate = @ + value]
      [] stat = "Energy Limit" -> [bonus_stats EXCEPT !.energy_limit = @ + IntOf(value)]
      [] stat = "Physical DMG" -> [bonus_stats EXCEPT !.physical_dmg = @ + value]
      [] stat = "Fire DMG"     -> [bonus_stats EXCEPT !.fire_dmg = @ + value]
      [] stat = "Ice DMG"      -> [bonus_stats EXCEPT !.ice_dmg = @ + value]
      [] stat = "Electric DMG" -> [bonus_stats EXCEPT !.electric_dmg = @ + value]
      [] stat = "Ether DMG"    -> [bonus_stats EXCEPT !.ether_dmg = @ + value]
      [] OTHER -> bonus_stats

\* AgentBonusStats.add_stat(stat, value): the record after the call
add_stat(bonus_stats, stat, value) ==
    CASE stat = "HP"   -> [bonus_stats EXCEPT !.hp = @ + IntOf(value)]
      [] stat = "HP%"  -> [bonus_stats EXCEPT !.hp_percent = @ + value]
      [] stat = "ATK"  -> [bonus_stats EXCEPT !.atk = @ + IntOf(value)]
      [] stat = "ATK%" -> [bonus_stats EXCEPT !.atk_percent = @ + value]
      [] stat = "DEF"  -> [bonus_stats EXCEPT !.defense = @ + IntOf(value)]
      [] stat = "DEF%" -> [bonus_stats EXCEPT !.def_percent = @ + value]
      [] stat = "Impact"    -> [bonus_stats EXCEPT !.impact = @ + IntOf(value)]
      [] stat = "Impact%"   -> [bonus_stats EXCEPT !.impact_percent = @ + value]
      [] stat = "CRIT Rate" -> [bonus_stats EXCEPT !.crit_rate = @ + value]
      [] stat = "CRIT DMG"  -> [bonus_stats EXCEPT !.crit_dmg = @ + value]
      [] stat = "Anomaly Mastery"  -> [bonus_stats EXCEPT !.anomaly_mastery = @ + IntOf(value)]
      [] stat = "Anomaly Mastery%" -> [bonus_stats EXCEPT !.anomaly_mastery_percent = @ + value]
      [] stat = "Anomaly Proficiency" -> [bonus_stats EXCEPT !.anomaly_proficiency = @ + IntOf(value)]
      [] stat = "PEN Ratio" -> [bonus_stats EXCEPT !.pen_ratio = @ + value]
      [] stat = "PEN"       -> [bonus_stats EXCEPT !.pen = @ + IntOf(value)]
      [] stat = "Energy Regen"  -> [bonus_stats EXCEPT !.energy_regen = @ + value]
      [] stat = "Energy Regen%" -> [bonus_stats EXCEPT !.energy_regen_percent = @ + value]
      [] stat = "Energy Generation Rate" -> [bonus_stats EXCEPT !.energy_generation_rate = @ + value]
      [] stat = "Energy Limit" -> [bonus_stats EXCEPT !.energy_limit = @ + IntOf(value)]
      [] stat = "Physical DMG" -> [bonus_stats EXCEPT !.physical_dmg = @ + value]
      [] stat = "Fire DMG"     -> [bonus_stats EXCEPT !.fire_dmg = @ + value]
      [] stat = "Ice DMG"      -> [bonus_stats EXCEPT !.ice_dmg = @ + value]
      [] stat = "Electric DMG" -> [bonus_stats EXCEPT !.electric_dmg = @ + value]
      [] stat = "Ether DMG"    -> [bonus_stats EXCEPT !.ether_dmg = @ + value]
      [] OTHER -> bonus_stats

\* Variant of from_base_and_bonus that scales the flat HP and ATK bonus by the percent too
from_base_and_bonus_FlatScaled(base_stats, bonus_stats) ==
    [hp |-> (base_stats.hp + bonus_stats.hp) * (1000 + bonus_stats.hp_percent),
     atk |-> (base_stats.atk + bonus_stats.atk) * (1000 + bonus_stats.atk_percent),
     defense |-> base_stats.defense * (1000 + bonus_stats.def_percent) + 1000 * bonus_stats.defense,
     impact |-> base_stats.impact * (1000 + bonus_stats.impact_percent) + 1000 * bonus_stats.impact,
     crit_rate |-> 1000 * (base_stats.crit_rate + bonus_stats.crit_rate),
     crit_dmg |-> 1000 * (base_stats.crit_dmg + bonus_stats.crit_dmg),
     anomaly_mastery |-> base_stats.anomaly_mastery * (1000 + bonus_stats.anomaly_mastery_percent)
                         + 1000 * bonus_stats.anomaly_mastery,
     anomaly_proficiency |-> 1000 * (base_stats.anomaly_proficiency + bonus_stats.anomaly_proficiency),
     pen_ratio |-> 1000 * (base_stats.pen_ratio + bonus_stats.pen_ratio),
     pen |-> 1000 * bonus_stats.pen,
     energy_regen |-> base_stats.energy_regen * (1000 + bonus_stats.energy_regen_percent)
                      + 1000 * bonus_stats.energy_regen,
     energy_limit |-> 1000 * (base_stats.energy_limit + bonus_stats.energy_limit),
     physical_dmg |-> 1000 * bonus_stats.physical_dmg,
     fire_dmg |-> 1000 * bonus_stats.fire_dmg,
     ice_dmg |-> 1000 * bonus_stats.ice_dmg,
     electric_dmg |-> 1000 * bonus_stats.electric_dmg,
     ether_dmg |-> 1000 * bonus_stats.ether_dmg]

\* Variant of from_base_and_bonus that takes the PEN Ratio from the bonus record alone
from_base_and_bonus_PenRatioBonusOnly(base_stats, bonus_stats) ==
    [hp |-> base_stats.hp * (1000 + bonus_stats.hp_percent) + 1000 * bonus_stats.hp,
     atk |-> base_stats.atk * (1000 + bonus_stats.atk_percent) + 1000 * bonus_stats.atk,
     defense |-> base_stats.defense * (1000 + bonus_stats.def_percent) + 1000 * bonus_stats.defense,
     impact |-> base_stats.impact * (1000 + bonus_stats.impact_percent) + 1000 * bonus_stats.impact,
     crit_rate |-> 1000 * (base_stats.crit_rate + bonus_stats.crit_rate),
     crit_dmg |-> 1000 * (base_stats.crit_dmg + bonus_stats.crit_dmg),
     anomaly_mastery |-> base_stats.anomaly_mastery * (1000 + bonus_stats.anomaly_mastery_percent)
                         + 1000 * bonus_stats.anomaly_mastery,
     anomaly_proficiency |-> 1000 * (base_stats.anomaly_proficiency + bonus_stats.anomaly_proficiency),
     pen_ratio |-> 1000 * bonus_stats.pen_ratio,
     pen |-> 1000 * bonus_stats.pen,
     energy_regen |-> base_stats.energy_regen * (1000 + bonus_stats.energy_regen_percent)
                      + 1000 * bonus_stats.energy_regen,
     energy_limit |-> 1000 * (base_stats.energy_limit + bonus_stats.energy_limit),
     physical_dmg |-> 1000 * bonus_stats.physical_dmg,
     fire_dmg |-> 1000 * bonus_stats.fire_dmg,
     ice_dmg |-> 1000 * bonus_stats.ice_dmg,
     electric_dmg |-> 1000 * bonus_stats.electric_dmg,
     ether_dmg |-> 1000 * bonus_stats.ether_dmg]

\* Variant of from_base_and_bonus that adds the base PEN Ratio to the flat PEN
from_base_and_bonus_PenWithBase(base_stats, bonus_stats) ==
    [hp |-> base_stats.hp * (1000 + bonus_stats.hp_percent) + 1000 * bonus_stats.hp,
     atk |-> base_stats.atk * (1000 + bonus_stats.atk_percent) + 1000 * bonus_stats.atk,
     defense |-> base_stats.defense * (1000 + bonus_stats.def_percent) + 1000 * bonus_stats.defense,
     impact |-> base_stats.impact * (1000 + bonus_stats.impact_percent) + 1000 * bonus_stats.impact,
     crit_rate |-> 1000 * (base_stats.crit_rate + bonus_stats.crit_rate),
     crit_dmg |-> 1000 * (base_stats.crit_dmg + bonus_stats.crit_dmg),
     anomaly_mastery |-> base_stats.anomaly_mastery * (1000 + bonus_stats.anomaly_mastery_percent)
                         + 1000 * bonus_stats.anomaly_mastery,
     anomaly_proficiency |-> 1000 * (base_stats.anomaly_proficiency + bonus_stats.anomaly_proficiency),
     pen_ratio |-> 1000 * (base_stats.pen_ratio + bonus_stats.pen_ratio),
     pen |-> 1000 * (base_stats.pen_ratio + bonus_stats.pen),
     energy_regen |-> base_stats.energy_regen * (1000 + bonus_stats.energy_regen_percent)
                      + 1000 * bonus_stats.energy_regen,
     energy_limit |-> 1000 * (base_stats.energy_limit + bonus_stats.energy_limit),
     physical_dmg |-> 1000 * bonus_stats.physical_dmg,
     fire_dmg |-> 1000 * bonus_stats.fire_dmg,
     ice_dmg |-> 1000 * bonus_stats.ice_dmg,
     electric_dmg |-> 1000 * bonus_stats.electric_dmg,
     ether_dmg |-> 1000 * bonus_stats.ether_dmg]

\* AgentTotalStats.from_base_and_bonus(base_stats, bonus_stats).  With base and flat bonus
\* in tenths and percent in tenths of a percent, base*(1 + percent/100) + flat is
\* (base*(1000 + percent) + 1000*flat) / 10000: every field is in units of 1/10000.
from_base_and_bonus(base_stats, bonus_stats) ==
    [hp |-> base_stats.hp * (1000 + bonus_stats.hp_percent) + 1000 * bonus_stats.hp,
     atk |-> base_stats.atk * (1000 + bonus_stats.atk_percent) + 1000 * bonus_stats.atk,
     defense |-> base_stats.defense * (1000 + bonus_stats.def_percent) + 1000 * bonus_stats.defense,
     impact |-> base_stats.impact * (1000 + bonus_stats.impact_percent) + 1000 * bonus_stats.impact,
     crit_rate |-> 1000 * (base_stats.crit_rate + bonus_stats.crit_rate),
     crit_dmg |-> 1000 * (base_stats.crit_dmg + bonus_stats.crit_dmg),
     anomaly_mastery |-> base_stats.anomaly_mastery * (1000 + bonus_stats.anomaly_mastery_percent)
                         + 1000 * bonus_stats.anomaly_mastery,
     anomaly_proficiency |-> 1000 * (base_stats.anomaly_proficiency + bonus_stats.anomaly_proficiency),
     pen_ratio |-> 1000 * (base_stats.pen_ratio + bonus_stats.pen_ratio),
     pen |-> 1000 * bonus_stats.pen,
     energy_regen |-> base_stats.energy_regen * (1000 + bonus_stats.energy_regen_percent)
                      + 1000 * bonus_stats.energy_regen,
     energy_limit |-> 1000 * (base_stats.energy_limit + bonus_stats.energy_limit),
     physical_dmg |-> 1000 * bonus_stats.physical_dmg,
     fire_dmg |-> 1000 * bonus_stats.fire_dmg,
     ice_dmg |-> 1000 * bonus_stats.ice_dmg,
     electric_dmg |-> 1000 * bonus_stats.electric_dmg,
     ether_dmg |-> 1000 * bonus_stats.ether_dmg]

(***************************************************************************)
(* core/agent_data.py: the Agent aggregate                                 *)
(***************************************************************************)

\* The static agent records (AgentData) the model knows, by name.  "Ellen" is built as the
\* tests build it (unset base stats are the dataclass zeros), "Anby" as from_dict builds it
\* (with the defaults 1.2, 120, 5.0 and 50.0).  The core stats are those of the tests: ATK
\* 25.0, and CRIT Rate 4.8 next to a base CRIT Rate of 5.0.
AgentArena ==
    [name \in {"Ellen", "Anby"} |->
        CASE name = "Ellen" -> [base_stats |-> AgentBaseStats(10000, 2000, 1500, 0, 0, 0, 0, 0, 0, 0, 0),
                                core_stat |-> [stat |-> "ATK", value |-> 250]]
          [] name = "Anby"  -> [base_stats |-> AgentBaseStats(76730, 9380, 6060, 930, 940, 930, 0, 12, 1200, 50, 500),
                                core_stat |-> [stat |-> "CRIT Rate", value |-> 48]]]

\* The fields of Agent whose default is a plain value stay class attributes, so reading
\* them on an instance that has not bound them yields the default; drive_discs and
\* skill_levels (default_factory) and base_agent_data (no default) have none.
AgentClassAttributes == {"level", "promotion", "mindscape", "w_engine", "cached_total_stats"}

\* object.__new__(Agent): no instance attribute is bound, the fields hold what a read of
\* the class would give (a filler where the class has nothing)
NewAgentObject ==
    [bound |-> {}, base_agent_data |-> "None", level |-> 1, promotion |-> 0, mindscape |-> 0,
     w_engine |-> <<>>, drive_discs |-> <<>>, skill_levels |-> <<>>, cached_total_stats |-> <<>>]

\* Whether self.<name> can be read: otherwise the read raises AttributeError
HasAttr(self, name) == name \in self.bound \cup AgentClassAttributes

\* The outcome of a method on self: the exception (or "None"), the value returned, and
\* self as the method leaves it
Outcome(exc, msg, val, self) == [exc |-> exc, msg |-> msg, val |-> val, self |-> self]

\* Agent.get_active_set_counts(): the dict as its items <<set_data, count>> in insertion
\* order, built over discs[1..i] (the values of self.drive_discs)
RECURSIVE SetCountItems(_, _)
SetCountItems(discs, i) ==
    IF i = 0 THEN <<>>
    ELSE LET before == SetCountItems(discs, i - 1)
             set_data == discs[i][2].set_data
         IN  IF \E j \in 1..Len(before) : before[j][1] = set_data
             THEN [j \in 1..Len(before) |->
                      IF before[j][1] = set_data THEN <<set_data, before[j][2] + 1>> ELSE before[j]]
             ELSE Append(before, <<set_data, 1>>)

get_active_set_counts(self) ==
    IF ~HasAttr(self, "drive_discs")
    THEN Outcome("AttributeError", Msg("'Agent' object has no attribute", 0, "drive_discs", 0), <<>>, self)
    ELSE IF \E i \in 1..Len(self.drive_discs) : ~Hashable(self.drive_discs[i][2].set_data)
    THEN Outcome("TypeError", Msg("unhashable type: 'DriveDiscSetData'", 0, "", 0), <<>>, self)
    ELSE Outcome("None", NoMsg, SetCountItems(self.drive_discs, Len(self.drive_discs)), self)

\* Steps 1 to 3 of Agent.get_bonus_stats, each on the record accumulated so far
RECURSIVE AddItems(_, _, _)
AddItems(bonus_stats, items, i) ==
    IF i > Len(items) THEN bonus_stats
    ELSE AddItems(add_stat(bonus_stats, items[i][1], items[i][2]), items, i + 1)

\* Variant of step 1 of get_bonus_stats that also counts the W-Engine's base ATK as flat ATK
AddWEngine_BaseAtkCounted(bonus_stats, engine) ==
    IF engine # <<>> /\ get_advanced_stat(engine[1]) # <<>>
    THEN add_stat(add_stat(bonus_stats, "ATK", get_current_base_atk(engine[1])),
                  get_advanced_stat(engine[1])[1].stat, get_advanced_stat(engine[1])[1].value)
    ELSE IF engine # <<>> THEN add_stat(bonus_stats, "ATK", get_current_base_atk(engine[1]))
    ELSE bonus_stats

AddWEngine(bonus_stats, engine) ==
    IF engine # <<>> /\ get_advanced_stat(engine[1]) # <<>>
    THEN add_stat(bonus_stats, get_advanced_stat(engine[1])[1].stat, get_advanced_stat(engine[1])[1].value)
    ELSE bonus_stats

RECURSIVE AddDiscs(_, _, _)
AddDiscs(bonus_stats, discs, i) ==
    IF i > Len(discs) THEN bonus_stats
    ELSE LET disc == discs[i][2]
             with_main == add_stat(bonus_stats, disc.main_stat_type, get_main_stat_value(disc))
         IN  AddDiscs(AddItems(with_main, get_all_substat_values(disc), 1), discs, i + 1)

Add2Piece(bonus_stats, set_data, count) ==
    IF count >= 2 /\ set_data # "None" /\ SetArena[set_data].bonus_2pc # <<>>
       /\ SetArena[set_data].bonus_2pc[1].simple_stat # "None"
       /\ SetArena[set_data].bonus_2pc[1].value # <<>>
    THEN add_stat(bonus_stats, SetArena[set_data].bonus_2pc[1].simple_stat, SetArena[set_data].bonus_2pc[1].value[1])
    ELSE bonus_stats

RECURSIVE AddSetBonuses(_, _, _)
AddSetBonuses(bonus_stats, set_counts, i) ==
    IF i > Len(set_counts) THEN bonus_stats
    ELSE AddSetBonuses(Add2Piece(bonus_stats, set_counts[i][1], set_counts[i][2]), set_counts, i + 1)

\* Agent.get_bonus_stats(): step 3 on the record step 2 left, given the outcome of
\* self.get_active_set_counts()
BonusStep3(self, bonus_stats, set_counts) ==
    IF set_counts.exc # "None"
    THEN set_counts
    ELSE Outcome("None", NoMsg, <<AddSetBonuses(bonus_stats, set_counts.val, 1)>>, self)

get_bonus_stats(self) ==
    IF ~HasAttr(self, "drive_discs")
    THEN Outcome("AttributeError", Msg("'Agent' object has no attribute", 0, "drive_discs", 0), <<>>, self)
    ELSE BonusStep3(self,
                    AddDiscs(AddWEngine(AgentBonusStats, self.w_engine), self.drive_discs, 1),
                    get_active_set_counts(self))

\* Variant of recalculate_total_stats that empties the agent's drive_discs while it stores
\* the snapshot
StoreTotal_GearDropped(self, bonus_stats) ==
    IF bonus_stats.exc # "None"
    THEN bonus_stats
    ELSE IF ~HasAttr(self, "base_agent_data")
    THEN Outcome("AttributeError", Msg("'Agent' object has no attribute", 0, "base_agent_data", 0), <<>>, self)
    ELSE Outcome("None", NoMsg, <<>>,
                 [self EXCEPT !.cached_total_stats =
                     <<from_base_and_bonus(AgentArena[self.base_agent_data].base_stats, bonus_stats.val[1])>>,
                              !.bound = @ \cup {"cached_total_stats"}, !.drive_discs = <<>>])

\* Agent.recalculate_total_stats(): bonus_stats is the outcome of self.get_bonus_stats()
StoreTotal(self, bonus_stats) ==
    IF bonus_stats.exc # "None"
    THEN bonus_stats
    ELSE IF ~HasAttr(self, "base_agent_data")
    THEN Outcome("AttributeError", Msg("'Agent' object has no attribute", 0, "base_agent_data", 0), <<>>, self)
    ELSE Outcome("None", NoMsg, <<>>,
                 [self EXCEPT !.cached_total_stats =
                     <<from_base_and_bonus(AgentArena[self.base_agent_data].base_stats, bonus_stats.val[1])>>,
                              !.bound = @ \cup {"cached_total_stats"}])

recalculate_total_stats(self) == StoreTotal(self, get_bonus_stats(self))

\* Agent.__setattr__(name, value): the attribute is stored first, then a tracked name
\* recomputes; when the recomputation raises, the attribute stays stored.
setattr(self, name, value) ==
    LET stored == [self EXCEPT ![name] = value, !.bound = @ \cup {name}] IN
    IF name \in {"level", "promotion", "mindscape", "w_engine", "drive_discs", "skill_levels"}
    THEN recalculate_total_stats(stored)
    ELSE Outcome("None", NoMsg, <<>>, stored)

\* The statements of Agent.__post_init__ from statement pc on: the three range clamps, the
\* band clamp (an assignment only when the level is outside the band) and the recomputation
RECURSIVE Agent_post_init_from(_, _)
AfterPostInitStatement(done, pc) ==
    IF done.exc # "None" THEN done ELSE Agent_post_init_from(done.self, pc + 1)

Agent_post_init_from(self, pc) ==
    CASE pc = 1 -> AfterPostInitStatement(setattr(self, "level", Max(1, Min(self.level, 60))), pc)
      [] pc = 2 -> AfterPostInitStatement(setattr(self, "promotion", Max(0, Min(self.promotion, 5))), pc)
      [] pc = 3 -> AfterPostInitStatement(setattr(self, "mindscape", Max(0, Min(self.mindscape, 6))), pc)
      [] pc = 4 -> IF ~(self.promotion * 10 <= self.level /\ self.level <= self.promotion * 10 + 10)
                   THEN AfterPostInitStatement(
                            setattr(self, "level",
                                    Max(self.promotion * 10, Min(self.level, self.promotion * 10 + 10))), pc)
                   ELSE Agent_post_init_from(self, pc + 1)
      [] OTHER  -> recalculate_total_stats(self)

\* Agent.__post_init__()
Agent_post_init(self) == Agent_post_init_from(self, 1)

\* The __init__ that @dataclass generates for Agent, from the i-th init field on: it
\* assigns the fields in declaration order, each through Agent.__setattr__, and then
\* calls __post_init__; an assignment that raises ends it.
RECURSIVE Agent_init_from(_, _, _)
AfterInitAssignment(done, fields, i) ==
    IF done.exc # "None" THEN done ELSE Agent_init_from(done.self, fields, i + 1)

Agent_init_from(self, fields, i) ==
    IF i > Len(fields)
    THEN Agent_post_init(self)
    ELSE AfterInitAssignment(setattr(self, fields[i][1], fields[i][2]), fields, i)

\* What the caller of a constructor is left with: obj is <<the object>> when the call
\* returned, <<>> when it raised
Constructed(done) ==
    [exc |-> done.exc, msg |-> done.msg, obj |-> IF done.exc = "None" THEN <<done.self>> ELSE <<>>]

\* Agent(base_agent_data, level, promotion, mindscape, w_engine, drive_discs, skill_levels)
Agent(base_agent_data, level, promotion, mindscape, w_engine, drive_discs, skill_levels) ==
    Constructed(Agent_init_from(NewAgentObject,
                                <<<<"base_agent_data", base_agent_data>>, <<"level", level>>,
                                  <<"promotion", promotion>>, <<"mindscape", mindscape>>,
                                  <<"w_engine", w_engine>>, <<"drive_discs", drive_discs>>,
                                  <<"skill_levels", skill_levels>>>>, 1))

\* Agent.total_stats (property): recomputes when the cache is None, then returns the cache
ReturnCache(filled) ==
    IF filled.exc # "None" THEN filled
    ELSE Outcome("None", NoMsg, filled.self.cached_total_stats, filled.self)

total_stats(self) ==
    ReturnCache(IF self.cached_total_stats = <<>>
                THEN recalculate_total_stats(self)
                ELSE Outcome("None", NoMsg, <<>>, self))

\* A receiver for Agent's methods on which the gear fields are bound to the given values
\* (get_bonus_stats and get_active_set_counts read self.w_engine and self.drive_discs only)
ReceiverWith(w_engine, drive_discs) ==
    [NewAgentObject EXCEPT !.w_engine = w_engine, !.drive_discs = drive_discs,
                           !.bound = {"w_engine", "drive_discs"}]

\* A receiver on which base_agent_data is bound too, as recalculate_total_stats reads it
ReceiverOf(base_agent_data, w_engine, drive_discs) ==
    [NewAgentObject EXCEPT !.base_agent_data = base_agent_data, !.w_engine = w_engine,
                           !.drive_discs = drive_discs,
                           !.bound = {"base_agent_data", "w_engine", "drive_discs"}]

\* agent.recalculate_total_stats() called a second time on the agent the first call left:
\* the value is <<snapshot after the first call, snapshot after the second>>
SnapshotPair(before, second) ==
    IF second.exc # "None" THEN second
    ELSE Outcome("None", NoMsg,
                 <<before.cached_total_stats[1], second.self.cached_total_stats[1]>>, second.self)

RecalculateAgain(first) ==
    IF first.exc # "None" THEN first
    ELSE SnapshotPair(first.self, recalculate_total_stats(first.self))

\* An agent as a caller holds it between operations: every field bound, the progression
\* values inside their ranges and the level inside the promotion's band
BoundAgent(base_agent_data, level, promotion, mindscape, w_engine, drive_discs) ==
    [NewAgentObject EXCEPT !.base_agent_data = base_agent_data, !.level = level,
                           !.promotion = promotion, !.mindscape = mindscape,
                           !.w_engine = w_engine, !.drive_discs = drive_discs,
                           !.bound = {"base_agent_data", "level", "promotion", "mindscape",
                                      "w_engine", "drive_discs", "skill_levels"}]

\* The progression values an agent holds
Progression(self) == [level |-> self.level, promotion |-> self.promotion, mindscape |-> self.mindscape]

\* One equip or unequip statement of a caller on an agent.  how = "assign" is
\* agent.<name> = value, through Agent.__setattr__; how = "in_place" is
\* agent.drive_discs[slot] = disc or del agent.drive_discs[slot], which changes the dict
\* the agent holds without any attribute being assigned.
Equip(self, how, name, value) ==
    IF how = "assign" THEN setattr(self, name, value)
    ELSE Outcome("None", NoMsg, <<>>, [self EXCEPT ![name] = value])

\* The snapshot a read of agent.total_stats returns after a statement: <<>> when the
\* statement or the read raised
SnapshotAfter(done) ==
    IF done.exc # "None" \/ total_stats(done.self).exc # "None" THEN <<>>
    ELSE total_stats(done.self).val

\* Equip then unequip on an agent whose cache holds the totals of its gear: the statements'
\* exceptions and the snapshots read before the equip, after it and after the unequip
RoundTripResult(start, equipped, unequipped) ==
    [exc |-> IF equipped.exc # "None" THEN equipped.exc ELSE unequipped.exc,
     before |-> start.cached_total_stats,
     equipped |-> SnapshotAfter(equipped),
     after |-> SnapshotAfter(unequipped)]

RoundTrip(start, how, name, value) ==
    RoundTripResult(start, Equip(start, how, name, value),
                    Equip(Equip(start, how, name, value).self, how, name, start[name]))

\* agent.recalculate_total_stats() called n more times on the agent a statement left: the
\* snapshots the cache held after the statement and after each call, oldest first
RECURSIVE RecalculateTimes(_, _)
RecalculateTimes(done, n) ==
    IF done.exc # "None" THEN <<>>
    ELSE IF n = 0 THEN <<done.self.cached_total_stats>>
    ELSE <<done.self.cached_total_stats>> \o RecalculateTimes(recalculate_total_stats(done.self), n - 1)

(***************************************************************************)
(* Python floats.  The model's stat values are exact (tenths); the float    *)
(* fields of AgentBonusStats are binary64 in the code, whose additions      *)
(* round.  A binary64 value v with 2^-4 <= v < 2^8, or zero, is kept here   *)
(* as the 64 bits, least significant first, of the integer v * 2^56.        *)
(***************************************************************************)

\* 0.0
Binary64Zero == [i \in 1..64 |-> 0]

\* The bits i.. of a + b, given the carry into bit i
RECURSIVE SumFrom(_, _, _, _)
SumFrom(a, b, i, carry) ==
    IF i > 64 THEN <<>>
    ELSE <<(a[i] + b[i] + carry) % 2>> \o SumFrom(a, b, i + 1, (a[i] + b[i] + carry) \div 2)

\* a + b as a real number
ExactSum(a, b) == SumFrom(a, b, 1, 0)

\* a * k as a real number, for a small integer k
RECURSIVE ExactTimes(_, _)
ExactTimes(a, k) == IF k = 0 THEN Binary64Zero ELSE ExactSum(ExactTimes(a, k - 1), a)

\* The position of the leading bit, 0 for zero
TopBit(a) ==
    IF \A i \in 1..64 : a[i] = 0 THEN 0
    ELSE CHOOSE i \in 1..64 : a[i] = 1 /\ \A j \in (i + 1)..64 : a[j] = 0

\* The bit at position i and nothing else
BitAt(i) == [j \in 1..64 |-> IF j = i THEN 1 ELSE 0]

\* The binary64 nearest to a real number: 53 significant bits are kept, the rest is
\* rounded to nearest, ties to the even significand
RoundToBinary64(a) ==
    IF TopBit(a) <= 53 THEN a
    ELSE LET drop == TopBit(a) - 53
             kept == [i \in 1..64 |-> IF i > drop THEN a[i] ELSE 0]
             more_than_half == a[drop] = 1 /\ \E i \in 1..(drop - 1) : a[i] = 1
             half_and_odd == a[drop] = 1 /\ a[drop + 1] = 1
         IN  IF more_than_half \/ half_and_odd THEN ExactSum(kept, BitAt(drop + 1)) ELSE kept

\* a + b and a * k on Python floats
float_add(a, b) == RoundToBinary64(ExactSum(a, b))
float_mul(a, k) == RoundToBinary64(ExactTimes(a, k))

\* drive_discs_substat_values.json, "DEF%" at rarity S: the float that json.load gives
\* for 4.8 (the model's SubstatTable holds it as 48 tenths)
DefPercentBase64 ==
    <<0, 0, 0, 0, 0, 0, 1, 1, 0, 0, 1, 1, 0, 0, 1, 1, 0, 0, 1, 1, 0, 0, 1, 1, 0, 0, 1, 1, 0, 0, 1, 1,
      0, 0, 1, 1, 0, 0, 1, 1, 0, 0, 1, 1, 0, 0, 1, 1, 0, 0, 1, 1, 0, 0, 1, 1, 0, 0, 1, 0, 0, 0, 0, 0>>

\* SubStatInstance.get_value for a DEF% substat of an S disc, as the float the code
\* computes: base_value * (actual_rolls + 1)
get_value64(sub) == float_mul(DefPercentBase64, Min(sub.rolls, MAX_SUBSTAT_ROLLS) + 1)

\* bonus_stats.def_percent after the substats sub_stats[i..] of an S disc were added
RECURSIVE AddSubs64(_, _, _)
AddSubs64(def_percent, sub_stats, i) ==
    IF i > Len(sub_stats) THEN def_percent
    ELSE AddSubs64(IF sub_stats[i].stat_type = "DEF%"
                   THEN float_add(def_percent, get_value64(sub_stats[i]))
                   ELSE def_percent,
                   sub_stats, i + 1)

\* bonus_stats.def_percent after step 2 of get_bonus_stats over discs[i..], for discs whose
\* DEF% comes from the substats of S discs only
RECURSIVE AddDiscs64(_, _, _)
AddDiscs64(def_percent, discs, i) ==
    IF i > Len(discs) THEN def_percent
    ELSE AddDiscs64(AddSubs64(def_percent, discs[i][2].sub_stats, 1), discs, i + 1)

(***************************************************************************)
(* Inputs of the calls                                                     *)
(***************************************************************************)

\* Bounds of the argument ranges
MaxSlotIn == 7
MaxLevelIn == 16
MaxRollsIn == 6
MaxSubsIn == 5
MaxContribs == 2
MaxEngineLevelIn == 70
MaxModificationIn == 6
MaxPhaseIn == 6
MaxParseLen == 3

\* The arguments of one DriveDisc(...) call
DiscArgs(set_data, rarity, level, slot, main_stat_type, sub_stats) ==
    [set_data |-> set_data, rarity |-> rarity, level |-> level, slot |-> slot,
     main_stat_type |-> main_stat_type, sub_stats |-> sub_stats]

\* The sub_stats list of the tests' basic disc, and a list that uses the five rolls up
TwoSubs == <<SubStatInstance("CRIT Rate", 1), SubStatInstance("ATK%", 0)>>
FourSubs ==
    <<SubStatInstance("CRIT Rate", 2), SubStatInstance("CRIT DMG", 1),
      SubStatInstance("HP%", 0), SubStatInstance("DEF", 2)>>

\* Every slot number around 1..6 with every member of Stat as main stat
SlotMainInputs ==
    {DiscArgs("None", "S", 15, slot, main, subs) :
        slot \in 0..MaxSlotIn, main \in Stat, subs \in {<<>>, <<SubStatInstance("PEN", 0)>>}}

\* Every rarity with levels around 0..15 and the tests' level 20
LevelInputs ==
    {DiscArgs("None", rarity, level, 1, "HP", <<>>) :
        rarity \in Rarity, level \in ((-1)..MaxLevelIn) \cup {20}}

\* Lists of up to MaxSubsIn substats over kinds whose roll counts are each valid: the
\* lists differ in length, in repeated kinds, in a kind equal to the main stat and in the
\* sum of the rolls
SubAlphabet ==
    {SubStatInstance("CRIT Rate", 2), SubStatInstance("CRIT DMG", 1), SubStatInstance("HP%", 0),
     SubStatInstance("DEF", 2), SubStatInstance("ATK", 3), SubStatInstance("PEN", 0)}

SubListInputs ==
    {DiscArgs("Hormone Punk", "S", 15, 4, main, subs) :
        main \in {"ATK%", "CRIT Rate"}, subs \in SeqsUpTo(SubAlphabet, MaxSubsIn)}

\* Lists of up to two elements with every roll count around 0..5, of kinds inside and
\* outside POSSIBLE_SUBSTATS, and elements that are no SubStatInstance
RollAlphabet ==
    {SubStatInstance(stat, rolls) : stat \in {"HP", "ATK", "CRIT Rate", "Impact"}, rolls \in (-1)..MaxRollsIn}
        \cup {NotASubStat}

RollInputs ==
    {DiscArgs("Woodpecker Electro", "A", 12, 5, "PEN Ratio", subs) : subs \in SeqsUpTo(RollAlphabet, 2)}

\* Discs of every rarity and level around 0..15 with every main stat in slots 1..6
MainStatInputs ==
    {DiscArgs("None", rarity, level, slot, main, <<>>) :
        rarity \in Rarity, level \in (-1)..MaxLevelIn, slot \in 1..6, main \in Stat}

DiscCallInputs == SlotMainInputs \cup LevelInputs \cup SubListInputs \cup RollInputs

\* The discs the caller of the session tries to equip: valid ones in slots 1, 4 and 5 over
\* the sets of the arena, and attempts the constructor refuses
GearInputs ==
    {DiscArgs("None", "S", 15, 1, "HP", <<>>),
     DiscArgs("Hormone Punk", "S", 20, 1, "HP", TwoSubs),
     DiscArgs("Proto Punk", "B", 9, 1, "HP", <<SubStatInstance("PEN", 1)>>),
     DiscArgs("None", "S", 15, 4, "ATK%", <<>>),
     DiscArgs("Hormone Punk", "A", 12, 4, "ATK%", FourSubs),
     DiscArgs("Shockstar Disco", "S", 15, 4, "CRIT DMG", <<>>),
     DiscArgs("Hormone Punk", "S", 15, 5, "PEN Ratio", TwoSubs),
     DiscArgs("Woodpecker Electro", "S", 9, 5, "PEN Ratio", <<>>),
     DiscArgs("Odd Set", "S", 15, 5, "Fire DMG", <<>>),
     DiscArgs("None", "S", 15, 7, "HP", <<>>),
     DiscArgs("Hormone Punk", "S", 15, 1, "ATK%", <<>>),
     DiscArgs("None", "S", 15, 4, "ATK%", <<SubStatInstance("ATK%", 1)>>),
     DiscArgs("None", "S", 15, 4, "ATK%", <<SubStatInstance("HP", 6)>>),
     DiscArgs("Hormone Punk", "S", 15, 4, "ATK%", <<SubStatInstance("HP", 3), SubStatInstance("ATK", 3)>>)}

\* The arguments of EquippedWEngine(...) calls: levels, modifications and phases inside
\* and outside their ranges
EngineCallInputs ==
    {[wengine_data |-> "Steel Cushion", level |-> level, modification |-> modification, phase |-> phase] :
        level \in (-5)..MaxEngineLevelIn, modification \in (-1)..MaxModificationIn, phase \in 0..MaxPhaseIn}

\* The engines whose passive is looked up: every engine of the arena at level 60 with
\* phases inside and outside 1..5, and the value keys asked for
PassiveCallInputs ==
    {[wengine_data |-> name, level |-> 60, modification |-> 5, phase |-> phase] :
        name \in DOMAIN WEnginePassiveArena, phase \in (-1)..MaxPhaseIn}

ValueKeyInputs == {"physical_dmg", "back_dmg", "val1", "non_existent_key"}

\* The W-Engines the caller of the session may hold: EquippedWEngine(...) arguments
EngineInputs ==
    {[wengine_data |-> "Steel Cushion", level |-> 60, modification |-> 5, phase |-> 1],
     [wengine_data |-> "Bare Engine", level |-> 1, modification |-> 0, phase |-> 1]}

\* The arguments <<base_agent_data, level, promotion>> of the caller's Agent(...) calls
AgentInputs == {<<"Ellen", 15, 1>>, <<"Ellen", 25, 1>>, <<"Anby", 1, 0>>}

\* The bonus records given to from_base_and_bonus: AgentBonusStats(field=value, ...) with
\* up to MaxContribs of these fields set, among them the tests' flat HP, ATK% and DEF%
Contributions ==
    {<<"hp", 5000>>, <<"atk_percent", 100>>, <<"def_percent", 200>>, <<"atk", 750>>,
     <<"hp_percent", 300>>, <<"defense", 150>>, <<"anomaly_mastery", 90>>,
     <<"anomaly_mastery_percent", 100>>, <<"energy_regen", 2>>, <<"energy_regen_percent", 200>>,
     <<"crit_rate", 24>>, <<"crit_dmg", 480>>, <<"anomaly_proficiency", 920>>, <<"pen_ratio", 80>>,
     <<"energy_limit", 200>>, <<"pen", 90>>, <<"impact", 180>>, <<"impact_percent", 180>>,
     <<"physical_dmg", 100>>, <<"fire_dmg", 300>>, <<"ice_dmg", 100>>, <<"electric_dmg", 100>>,
     <<"ether_dmg", 100>>}

RECURSIVE WithFields(_, _)
WithFields(bonus_stats, fields) ==
    IF fields = {} THEN bonus_stats
    ELSE LET f == CHOOSE x \in fields : TRUE
         IN  WithFields([bonus_stats EXCEPT ![f[1]] = f[2]], fields \ {f})

BonusInputs ==
    {WithFields(AgentBonusStats, fields) :
        fields \in {F \in SUBSET Contributions : Cardinality(F) <= MaxContribs}}

\* The base records given to from_base_and_bonus: those of the arena and one that
\* from_dict builds from data with a base_pen_ratio
BaseInputs ==
    {AgentArena[name].base_stats : name \in DOMAIN AgentArena}
        \cup {AgentBaseStats(68000, 8800, 6000, 950, 900, 930, 100, 12, 1200, 50, 500)}

(***************************************************************************)
(* The caller's session with the gear of one agent                         *)
(***************************************************************************)

\* The record of a call: what was called, with what, and how it ended
\* str.upper() on one character, to enumerate the casings of a label
upper_char(c) == IF \E i \in 1..26 : LowerCase[i] = c THEN UpperCase[CHOOSE i \in 1..26 : LowerCase[i] = c] ELSE c

\* Every casing of a label
RECURSIVE Casings(_)
Casings(label) ==
    IF label = <<>> THEN {<<>>}
    ELSE {<<c>> \o rest : c \in {lower_char(Head(label)), upper_char(Head(label))}, rest \in Casings(Tail(label))}

\* The characters of the short inputs to from_string
ParseAlphabet == {"H", "h", "P", "p", "%", "A", "a", "S", "s", "C", "c"}

\* Inputs to from_string: every short string over the alphabet (the empty string that
\* data.get(key, "") passes for a missing key included), every casing of two long labels,
\* the test's invalid name, and a value that is no str
ParseInputs ==
    SeqsUpTo(ParseAlphabet, MaxParseLen)
    \cup Casings(<<"C", "R", "I", "T", " ", "R", "a", "t", "e">>)
    \cup Casings(<<"U", "n", "k", "n", "o", "w", "n">>)
    \cup {<<"I", "n", "v", "a", "l", "i", "d", " ", "S", "t", "a", "t", " ", "N", "a", "m", "e">>, NotAStr}

\* agent.<name> = value for the progression fields: values inside and outside the ranges
AssignInputs ==
    {<<"level", 15>>, <<"level", 100>>, <<"promotion", 3>>, <<"promotion", 7>>,
     <<"mindscape", 6>>, <<"mindscape", -1>>}

\* The disc DriveDisc(None, rarity, 15, slot, main_stat_type, []) constructs
PlainDisc(rarity, slot, main_stat_type) == DriveDisc("None", rarity, 15, slot, main_stat_type, <<>>).obj[1]

\* The dicts a caller assigns to agent.drive_discs (items <<key, disc>>): each disc under
\* its own slot; a disc under another key; two discs of slot 3 under two keys; key 7; and
\* seven entries
DiscMapInputs ==
    {<<>>,
     <<<<1, PlainDisc("S", 1, "HP")>>>>,
     <<<<1, PlainDisc("S", 1, "HP")>>, <<3, PlainDisc("S", 3, "DEF")>>>>,
     <<<<1, PlainDisc("S", 3, "DEF")>>>>,
     <<<<3, PlainDisc("S", 3, "DEF")>>, <<5, PlainDisc("A", 3, "DEF")>>>>,
     <<<<7, PlainDisc("S", 1, "HP")>>>>,
     [key \in 1..7 |-> <<key, PlainDisc("S", 2, "ATK")>>]}

\* The gear an agent holds before a round trip (no W-Engine; discs without set records)
RoundTripGear == {<<>>, <<<<1, PlainDisc("S", 1, "HP")>>>>}

\* The equip statements of a round trip: a W-Engine, a disc without a set record into slot
\* 4 by assigning a new dict or in place, a disc of the set Hormone Punk into slot 4
RoundTripItems ==
    {[how |-> "assign", name |-> "w_engine", disc |-> <<>>,
      engine |-> <<EquippedWEngine("Steel Cushion", 60, 5, 1)>>],
     [how |-> "assign", name |-> "drive_discs", engine |-> <<>>,
      disc |-> <<PlainDisc("S", 4, "ATK%")>>],
     [how |-> "in_place", name |-> "drive_discs", engine |-> <<>>,
      disc |-> <<PlainDisc("S", 4, "ATK%")>>],
     [how |-> "assign", name |-> "drive_discs", engine |-> <<>>,
      disc |-> DriveDisc("Hormone Punk", "S", 15, 4, "ATK%", <<>>).obj]}

\* The discs whose iteration order is varied: DEF% substats of 0, 1 and 2 rolls on three
\* S discs (4.8, 9.6 and 14.399999999999999 as floats), ATK substats on S and B discs
\* (19.0 and 7.5, the latter truncated by int())
OrderDiscs ==
    <<DriveDisc("None", "S", 15, 1, "HP", <<SubStatInstance("DEF%", 0), SubStatInstance("ATK", 0)>>).obj[1],
      DriveDisc("None", "S", 15, 2, "ATK", <<SubStatInstance("DEF%", 1)>>).obj[1],
      DriveDisc("None", "S", 15, 3, "DEF", <<SubStatInstance("DEF%", 2)>>).obj[1],
      DriveDisc("None", "B", 9, 4, "ATK%", <<SubStatInstance("ATK", 0), SubStatInstance("DEF", 2)>>).obj[1]>>

\* The insertion orders of the dicts that hold two or more of these discs
DiscOrders ==
    {order \in SeqsUpTo(1..Len(OrderDiscs), Len(OrderDiscs)) :
        Len(order) >= 2 /\ \A i, j \in 1..Len(order) : order[i] = order[j] => i = j}

\* The records add_stat is called on: the empty one, the one the test has after its first
\* call, and one whose fields all hold different values
AddStatRecords ==
    {AgentBonusStats,
     [AgentBonusStats EXCEPT !.hp = 5000],
     [hp |-> 10, hp_percent |-> 21, atk |-> 30, atk_percent |-> 41, defense |-> 50,
      def_percent |-> 61, impact |-> 70, impact_percent |-> 81, crit_rate |-> 91,
      crit_dmg |-> 101, anomaly_mastery |-> 110, anomaly_mastery_percent |-> 121,
      anomaly_proficiency |-> 130, pen_ratio |-> 141, pen |-> 150, energy_regen |-> 161,
      energy_regen_percent |-> 171, energy_generation_rate |-> 181, energy_limit |-> 190,
      physical_dmg |-> 201, fire_dmg |-> 211, ice_dmg |-> 221, electric_dmg |-> 231,
      ether_dmg |-> 241]}

\* The values given to add_stat, in tenths: the tests' 500 and 10.0, and 7.5, which int()
\* truncates
AddStatValues == {5000, 100, 75}

\* The gear of an agent whose core-skill level is set: none, or a disc with an ATK substat
\* and a W-Engine
CoreSkillGear ==
    {[w_engine |-> <<>>, drive_discs |-> <<>>],
     [w_engine |-> <<EquippedWEngine("Steel Cushion", 60, 5, 1)>>,
      drive_discs |-> <<<<1, DriveDisc("None", "S", 15, 1, "HP", <<SubStatInstance("ATK", 2)>>).obj[1]>>>>]}

\* The core-skill levels a caller sets (3 in the test) and the number of calls of
\* recalculate_total_stats that follow (2 in the test)
CoreSkillLevels == {0, 3, 7}

MaxRecalculations == 3

\* The agents whose totals are recomputed or read: either agent record, at the start or
\* the end of the progression, without gear, with a disc and a W-Engine, or with a disc
\* that carries a set record; the cache empty, holding the totals of the gear, or holding
\* the totals of no gear (as after an in-place equip)
RecomputeGear ==
    CoreSkillGear \cup
    {[w_engine |-> <<>>, drive_discs |-> <<<<4, DriveDisc("Hormone Punk", "S", 15, 4, "ATK%", <<>>).obj[1]>>>>]}

CachesOf(name) ==
    {<<>>} \cup {recalculate_total_stats(BoundAgent(name, 15, 1, 0, g.w_engine, g.drive_discs)).self.cached_total_stats :
                    g \in CoreSkillGear}

RecomputeAgents ==
    UNION {{[BoundAgent(name, p[1], p[2], p[3], gear.w_engine, gear.drive_discs) EXCEPT !.cached_total_stats = cache] :
               p \in {<<15, 1, 0>>, <<60, 5, 6>>}, gear \in RecomputeGear, cache \in CachesOf(name)} :
           name \in DOMAIN AgentArena}

\* What two compared agents may differ in: level, promotion and mindscape, the skill levels
\* and the W-Engine (none, the tests' Steel Cushion at two levels, modifications and
\* phases, and two W-Engines without advanced stat whose base ATK differs)
AgentVariants ==
    {[level |-> p[1], promotion |-> p[2], mindscape |-> p[3], skill_levels |-> skill_levels, w_engine |-> w_engine] :
        p \in {<<15, 1, 0>>, <<60, 5, 6>>},
        skill_levels \in {<<>>, <<<<"Basic Attack", 3>>>>},
        w_engine \in {<<>>, <<EquippedWEngine("Steel Cushion", 60, 5, 1)>>,
                      <<EquippedWEngine("Steel Cushion", 10, 0, 3)>>,
                      <<EquippedWEngine("Bare Engine", 1, 0, 1)>>,
                      <<EquippedWEngine("Half Engine", 60, 5, 5)>>}}

\* The discs both compared agents hold
ComparedDiscs ==
    {<<>>, <<<<1, DriveDisc("None", "S", 15, 1, "HP", <<SubStatInstance("ATK", 2), SubStatInstance("DEF%", 1)>>).obj[1]>>>>}

\* The agent of a variant
VariantAgent(name, variant, drive_discs) ==
    [BoundAgent(name, variant.level, variant.promotion, variant.mindscape, variant.w_engine, drive_discs)
        EXCEPT !.skill_levels = variant.skill_levels]

Call(op, args, exc, msg, val) == [op |-> op, args |-> args, exc |-> exc, msg |-> msg, val |-> val]

\* d[key] = value and del d[key] on the items of a dict: an existing key keeps its place
DictSet(items, key, value) ==
    IF \E i \in 1..Len(items) : items[i][1] = key
    THEN [i \in 1..Len(items) |-> IF items[i][1] = key THEN <<key, value>> ELSE items[i]]
    ELSE Append(items, <<key, value>>)

DictDel(items, key) == SelectSeq(items, LAMBDA item : item[1] # key)

Init ==
    /\ call = Call("none", <<>>, "None", NoMsg, <<>>)
    /\ gear_discs = <<>>
    /\ gear_engine = <<>>
    /\ agent = [status |-> "none", args |-> <<>>, exc |-> "None", msg |-> NoMsg, obj |-> <<>>]

\* discs[d.slot] = DriveDisc(...): when the constructor raises, the statement ends there
EquipDisc(d) ==
    LET made == DriveDisc(d.set_data, d.rarity, d.level, d.slot, d.main_stat_type, d.sub_stats) IN
    /\ call' = Call("DriveDisc", d, made.exc, made.msg, made.obj)
    /\ gear_discs' = IF made.exc = "None" THEN DictSet(gear_discs, d.slot, made.obj[1]) ELSE gear_discs
    /\ UNCHANGED <<gear_engine, agent>>

\* del discs[key]
UnequipDisc(key) ==
    /\ \E i \in 1..Len(gear_discs) : gear_discs[i][1] = key
    /\ call' = Call("del", key, "None", NoMsg, <<>>)
    /\ gear_discs' = DictDel(gear_discs, key)
    /\ UNCHANGED <<gear_engine, agent>>

\* engine = EquippedWEngine(...)
EquipWEngine(e) ==
    /\ call' = Call("EquippedWEngine", e, "None", NoMsg, <<>>)
    /\ gear_engine' = <<EquippedWEngine(e.wengine_data, e.level, e.modification, e.phase)>>
    /\ UNCHANGED <<gear_discs, agent>>

\* engine = None
UnequipWEngine ==
    /\ gear_engine # <<>>
    /\ call' = Call("None", <<>>, "None", NoMsg, <<>>)
    /\ gear_engine' = <<>>
    /\ UNCHANGED <<gear_discs, agent>>

\* Agent(base_agent_data=..., level=..., promotion=..., w_engine=engine, drive_discs=discs)
NewAgent(name, level, promotion) ==
    LET made == Agent(name, level, promotion, 0, gear_engine, gear_discs, <<>>) IN
    /\ agent' = [status |-> "called", args |-> <<name, level, promotion>>,
                 exc |-> made.exc, msg |-> made.msg, obj |-> made.obj]
    /\ call' = Call("Agent", <<name, level, promotion>>, made.exc, made.msg, <<>>)
    /\ UNCHANGED <<gear_discs, gear_engine>>

\* Agent.get_bonus_stats on a receiver that holds the caller's gear
CallGetBonusStats ==
    LET got == get_bonus_stats(ReceiverWith(gear_engine, gear_discs)) IN
    /\ call' = Call("get_bonus_stats", <<>>, got.exc, got.msg, got.val)
    /\ UNCHANGED <<gear_discs, gear_engine, agent>>

\* Agent.get_active_set_counts on a receiver that holds the caller's gear
CallGetActiveSetCounts ==
    LET got == get_active_set_counts(ReceiverWith(gear_engine, gear_discs)) IN
    /\ call' = Call("get_active_set_counts", <<>>, got.exc, got.msg, got.val)
    /\ UNCHANGED <<gear_discs, gear_engine, agent>>

\* Agent.recalculate_total_stats, twice in a row, on a receiver that holds the caller's gear
CallRecalculateTotalStats(name) ==
    LET got == RecalculateAgain(recalculate_total_stats(ReceiverOf(name, gear_engine, gear_discs))) IN
    /\ call' = Call("recalculate_total_stats", name, got.exc, got.msg, got.val)
    /\ UNCHANGED <<gear_discs, gear_engine, agent>>

\* agent.level = value, agent.promotion = value or agent.mindscape = value (the class has no
\* other setter) on an agent of level 15, promotion 1, mindscape 0 that holds the caller's
\* gear; the value of the call is the progression the agent holds after the statement
AssignProgression(name, value) ==
    LET done == setattr(BoundAgent("Ellen", 15, 1, 0, gear_engine, gear_discs), name, value) IN
    /\ call' = Call("setattr", <<name, value>>, done.exc, done.msg, <<Progression(done.self)>>)
    /\ UNCHANGED <<gear_discs, gear_engine, agent>>

Next ==
    \/ \E d \in GearInputs : EquipDisc(d)
    \/ \E key \in 1..6 : UnequipDisc(key)
    \/ \E e \in EngineInputs : EquipWEngine(e)
    \/ UnequipWEngine
    \/ \E a \in AgentInputs : NewAgent(a[1], a[2], a[3])
    \/ \E a \in AssignInputs : AssignProgression(a[1], a[2])
    \/ CallGetBonusStats
    \/ CallGetActiveSetCounts
    \/ \E name \in DOMAIN AgentArena : CallRecalculateTotalStats(name)

Spec == Init /\ [][Next]_vars

(***************************************************************************)
(* Single calls of the constructors and the pure functions: each behaviour *)
(* makes one call, on arguments drawn from the input sets                  *)
(***************************************************************************)

\* DriveDisc(...) on its own
NewDriveDisc ==
    /\ call.op = "none"
    /\ \E d \in DiscCallInputs :
          LET made == DriveDisc(d.set_data, d.rarity, d.level, d.slot, d.main_stat_type, d.sub_stats) IN
          call' = Call("DriveDisc", d, made.exc, made.msg, made.obj)
    /\ UNCHANGED <<gear_discs, gear_engine, agent>>

\* SubStatInstance(stat_type, rolls).get_value(rarity)
CallGetValue ==
    /\ call.op = "none"
    /\ \E stat_type \in POSSIBLE_SUBSTATS \cup {"Impact"}, rolls \in (-1)..MaxRollsIn, rarity \in Rarity :
          call' = Call("get_value", [stat_type |-> stat_type, rolls |-> rolls, rarity |-> rarity],
                       "None", NoMsg, get_value(SubStatInstance(stat_type, rolls), rarity))
    /\ UNCHANGED <<gear_discs, gear_engine, agent>>

\* AgentTotalStats.from_base_and_bonus(base_stats, bonus_stats)
CallFromBaseAndBonus ==
    /\ call.op = "none"
    /\ \E base_stats \in BaseInputs, bonus_stats \in BonusInputs :
          call' = Call("from_base_and_bonus",
                       [base_stats |-> base_stats, bonus_stats |-> bonus_stats],
                       "None", NoMsg, from_base_and_bonus(base_stats, bonus_stats))
    /\ UNCHANGED <<gear_discs, gear_engine, agent>>

\* DriveDisc(...).get_main_stat_value() on a disc the constructor returned
CallGetMainStatValue ==
    /\ call.op = "none"
    /\ \E d \in MainStatInputs :
          LET made == DriveDisc(d.set_data, d.rarity, d.level, d.slot, d.main_stat_type, d.sub_stats) IN
          /\ made.exc = "None"
          /\ call' = Call("get_main_stat_value", made.obj[1], "None", NoMsg, get_main_stat_value(made.obj[1]))
    /\ UNCHANGED <<gear_discs, gear_engine, agent>>

\* EquippedWEngine(...) on its own; the constructor has no raise statement
NewEquippedWEngine ==
    /\ call.op = "none"
    /\ \E e \in EngineCallInputs :
          call' = Call("EquippedWEngine", e, "None", NoMsg,
                       <<EquippedWEngine(e.wengine_data, e.level, e.modification, e.phase)>>)
    /\ UNCHANGED <<gear_discs, gear_engine, agent>>

\* EquippedWEngine(...).get_passive_value(value_key)
CallGetPassiveValue ==
    /\ call.op = "none"
    /\ \E e \in PassiveCallInputs, value_key \in ValueKeyInputs :
          call' = Call("get_passive_value", [engine |-> e, value_key |-> value_key], "None", NoMsg,
                       get_passive_value(EquippedWEngine(e.wengine_data, e.level, e.modification, e.phase),
                                         value_key))
    /\ UNCHANGED <<gear_discs, gear_engine, agent>>

\* EquippedWEngine(...).get_formatted_passive_description()
CallGetFormattedPassiveDescription ==
    /\ call.op = "none"
    /\ \E e \in PassiveCallInputs :
          call' = Call("get_formatted_passive_description", [engine |-> e], "None", NoMsg,
                       get_formatted_passive_description(
                           EquippedWEngine(e.wengine_data, e.level, e.modification, e.phase)))
    /\ UNCHANGED <<gear_discs, gear_engine, agent>>

\* cls.from_string(value) for an enumeration class of common.py
CallFromString ==
    /\ call.op = "none"
    /\ \E cls \in DOMAIN EnumMembers, value \in ParseInputs :
          LET parsed == from_string(cls, value) IN
          call' = Call("from_string", [cls |-> cls, value |-> value], parsed.exc, NoMsg,
                       IF parsed.exc = "None" THEN <<parsed.val>> ELSE <<>>)
    /\ UNCHANGED <<gear_discs, gear_engine, agent>>

\* agent.drive_discs = discs on an agent without gear, then agent.total_stats: the value of
\* the call is the agent after the statement
AssignDriveDiscs ==
    /\ call.op = "none"
    /\ \E discs \in DiscMapInputs :
          LET done == setattr(BoundAgent("Ellen", 15, 1, 0, <<>>, <<>>), "drive_discs", discs) IN
          call' = Call("set_drive_discs", discs, done.exc, done.msg, <<done.self>>)
    /\ UNCHANGED <<gear_discs, gear_engine, agent>>

\* Equip an item on an agent and unequip it again, reading agent.total_stats before, in
\* between and after
EquipUnequipRoundTrip ==
    /\ call.op = "none"
    /\ \E gear \in RoundTripGear, item \in RoundTripItems :
          LET start == recalculate_total_stats(BoundAgent("Ellen", 15, 1, 0, <<>>, gear)).self
              value == IF item.name = "w_engine" THEN item.engine
                       ELSE DictSet(gear, item.disc[1].slot, item.disc[1])
              trip == RoundTrip(start, item.how, item.name, value)
          IN  call' = Call("round_trip", [gear |-> gear, item |-> item, value |-> value],
                           trip.exc, NoMsg, <<trip>>)
    /\ UNCHANGED <<gear_discs, gear_engine, agent>>

\* Agent.get_bonus_stats on an agent whose drive_discs dict was filled in the given order:
\* the value is the bonus record (exact values) and its def_percent field as the float
CallGetBonusStatsInOrder ==
    /\ call.op = "none"
    /\ \E order \in DiscOrders :
          LET discs == [i \in 1..Len(order) |-> <<OrderDiscs[order[i]].slot, OrderDiscs[order[i]]>>]
              got == get_bonus_stats(ReceiverWith(<<>>, discs))
          IN  call' = Call("get_bonus_stats_in_order", discs, got.exc, got.msg,
                           <<[bonus_stats |-> got.val[1],
                              def_percent64 |-> AddDiscs64(Binary64Zero, discs, 1)]>>)
    /\ UNCHANGED <<gear_discs, gear_engine, agent>>

\* bonus_stats.add_stat(stat, value) for every member of Stat
CallAddStat ==
    /\ call.op = "none"
    /\ \E bonus_stats \in AddStatRecords, stat \in Stat \cup StatUndeclared, value \in AddStatValues :
          call' = Call("add_stat", [bonus_stats |-> bonus_stats, stat |-> stat, value |-> value],
                       "None", NoMsg, <<add_stat(bonus_stats, stat, value)>>)
    /\ UNCHANGED <<gear_discs, gear_engine, agent>>

\* agent.skill_levels[key] = level in place, as the test does, or agent.skill_levels =
\* {key: level}, followed by calls of agent.recalculate_total_stats(): the value is the
\* snapshots of the cache before and after each call
SetCoreSkillAndRecalculate ==
    /\ call.op = "none"
    /\ \E name \in DOMAIN AgentArena, gear \in CoreSkillGear, how \in {"assign", "in_place"},
          level \in CoreSkillLevels, times \in 1..MaxRecalculations :
          LET start == recalculate_total_stats(BoundAgent(name, 15, 1, 0, gear.w_engine, gear.drive_discs)).self
              done == Equip(start, how, "skill_levels", <<<<"Core Skill", level>>>>)
          IN  call' = Call("set_core_skill",
                           [name |-> name, gear |-> gear, how |-> how, level |-> level, times |-> times],
                           done.exc, done.msg, RecalculateTimes(done, times))
    /\ UNCHANGED <<gear_discs, gear_engine, agent>>

\* agent.recalculate_total_stats() or a read of agent.total_stats: the value is the agent
\* before and the agent after
RecomputeOrRead ==
    /\ call.op = "none"
    /\ \E self \in RecomputeAgents, op \in {"recalculate_total_stats", "total_stats"} :
          LET done == IF op = "total_stats" THEN total_stats(self) ELSE recalculate_total_stats(self)
          IN  call' = Call("recompute", [op |-> op], done.exc, done.msg, <<self, done.self>>)
    /\ UNCHANGED <<gear_discs, gear_engine, agent>>

\* first.total_stats and second.total_stats of two agents with the same agent record and
\* the same discs
CompareTotalStats ==
    /\ call.op = "none"
    /\ \E name \in DOMAIN AgentArena, drive_discs \in ComparedDiscs, first \in AgentVariants, second \in AgentVariants :
          LET one == total_stats(VariantAgent(name, first, drive_discs))
              two == total_stats(VariantAgent(name, second, drive_discs))
          IN  call' = Call("compare_total_stats",
                           [name |-> name, drive_discs |-> drive_discs, first |-> first, second |-> second],
                           IF one.exc # "None" THEN one.exc ELSE two.exc, NoMsg, <<one.val, two.val>>)
    /\ UNCHANGED <<gear_discs, gear_engine, agent>>

\* gdl.get_drive_main_stat_value(rarity, stat_type, level) for every rarity and kind
CallGetDriveMainStatValue ==
    /\ call.op = "none"
    /\ \E rarity \in Rarity, stat_type \in Stat \cup StatUndeclared, level \in -1..MaxLevelIn :
          call' = Call("get_drive_main_stat_value",
                       [rarity |-> rarity, stat_type |-> stat_type, level |-> level],
                       "None", NoMsg, get_drive_main_stat_value(rarity, stat_type, level))
    /\ UNCHANGED <<gear_discs, gear_engine, agent>>

NextCalls ==
    \/ NewDriveDisc
    \/ CallGetValue
    \/ CallFromBaseAndBonus
    \/ CallGetMainStatValue
    \/ NewEquippedWEngine
    \/ CallGetPassiveValue
    \/ CallGetFormattedPassiveDescription
    \/ CallFromString
    \/ AssignDriveDiscs
    \/ EquipUnequipRoundTrip
    \/ CallGetBonusStatsInOrder
    \/ CallAddStat
    \/ SetCoreSkillAndRecalculate
    \/ RecomputeOrRead
    \/ CompareTotalStats
    \/ CallGetDriveMainStatValue

SpecCalls == Init /\ [][NextCalls]_vars

(***************************************************************************)
(* Properties.  The predicates below state the rules as the specification  *)
(* words them, independently of the operators above.                       *)
(***************************************************************************)

\* The candidate main stats of each slot
CandidateMainStats ==
    [slot \in 1..6 |->
        CASE slot = 1 -> {"HP"}
          [] slot = 2 -> {"ATK"}
          [] slot = 3 -> {"DEF"}
          [] slot = 4 -> {"HP%", "ATK%", "DEF%", "CRIT Rate", "CRIT DMG", "Anomaly Proficiency"}
          [] slot = 5 -> {"HP%", "ATK%", "DEF%", "PEN Ratio", "Physical DMG", "Fire DMG", "Ice DMG",
                          "Electric DMG", "Ether DMG"}
          [] slot = 6 -> {"HP%", "ATK%", "DEF%", "Anomaly Mastery", "Impact", "Energy Regen"}]

\* The kinds a substat may have
SubstatKinds ==
    {"HP", "ATK", "DEF", "HP%", "ATK%", "DEF%", "PEN", "CRIT Rate", "CRIT DMG", "Anomaly Proficiency"}

\* d has a slot in 1..6 and a main stat among the candidates of that slot
SlotAndMainValid(d) == d.slot \in 1..6 /\ d.main_stat_type \in CandidateMainStats[d.slot]

\* Every element of the list is a SubStatInstance
AllSubStats(sub_stats) == \A i \in 1..Len(sub_stats) : sub_stats[i].cls = "SubStatInstance"

\* At most 4 substats, of pairwise distinct kinds, all substat kinds, none the main stat
SubstatSetValid(main_stat_type, sub_stats) ==
    /\ Len(sub_stats) <= 4
    /\ \A i, j \in 1..Len(sub_stats) : i # j => sub_stats[i].stat_type # sub_stats[j].stat_type
    /\ \A i \in 1..Len(sub_stats) :
          sub_stats[i].stat_type \in SubstatKinds /\ sub_stats[i].stat_type # main_stat_type

\* Every roll count is within 0..5
RollCountsValid(sub_stats) == \A i \in 1..Len(sub_stats) : sub_stats[i].rolls \in 0..5

\* The sum of the roll counts of a list
RECURSIVE RollSum(_)
RollSum(sub_stats) ==
    IF sub_stats = <<>> THEN 0 ELSE Head(sub_stats).rolls + RollSum(Tail(sub_stats))

\* The last call was DriveDisc(...) and it raised ValueError, leaving no disc object
DiscRejected == call.op = "DriveDisc" /\ call.exc = "ValueError" /\ call.val = <<>>

\* C3: constructing a Drive Disc whose slot is outside 1..6, or whose main stat is not
\* among the candidates of its slot, raises a validation error and yields no disc; the
\* message carries the offending slot and, for a mismatch, the slot and the stat.
C3_SlotAndMainStatRejected ==
    call.op = "DriveDisc" =>
        /\ call.args.slot \notin 1..6 =>
              /\ DiscRejected
              /\ call.msg.text = "Invalid slot number"
              /\ call.msg.slot = call.args.slot
        /\ (call.args.slot \in 1..6 /\ call.args.main_stat_type \notin CandidateMainStats[call.args.slot]) =>
              /\ DiscRejected
              /\ call.msg.text = "Invalid main stat for slot"
              /\ call.msg.slot = call.args.slot
              /\ call.msg.stat = call.args.main_stat_type

\* C3 witness: ATK% in slot 1 was rejected with a message naming slot 1 and ATK%
C3_Witness ==
    /\ DiscRejected
    /\ call.args.slot = 1 /\ call.args.main_stat_type = "ATK%"
    /\ call.msg = Msg("Invalid main stat for slot", 1, "ATK%", 0)

\* C4: a Drive Disc whose roll counts sum to more than 5 is never constructed; when
\* every other rule holds the failure is the one about the total, and a sum of at most 5
\* (so exactly 5 too) is accepted.
C4_RollPoolShared ==
    (call.op = "DriveDisc" /\ AllSubStats(call.args.sub_stats)) =>
        /\ RollSum(call.args.sub_stats) > 5 => DiscRejected
        /\ ( /\ SlotAndMainValid(call.args)
             /\ SubstatSetValid(call.args.main_stat_type, call.args.sub_stats)
             /\ RollCountsValid(call.args.sub_stats) ) =>
              IF RollSum(call.args.sub_stats) > 5
              THEN /\ DiscRejected
                   /\ call.msg.text = "Total substat rolls exceed maximum allowed"
                   /\ call.msg.n = RollSum(call.args.sub_stats)
              ELSE call.exc = "None" /\ call.val # <<>> /\ call.val[1].sub_stats = call.args.sub_stats

\* C4 witness: the rolls 3+3 were rejected for their total of 6
C4_Witness ==
    /\ DiscRejected
    /\ Len(call.args.sub_stats) = 2
    /\ call.args.sub_stats[1].rolls = 3 /\ call.args.sub_stats[2].rolls = 3
    /\ call.msg.text = "Total substat rolls exceed maximum allowed" /\ call.msg.n = 6

\* C4, the accepted side: four substats with the rolls 2+1+0+2 were accepted
C4_AcceptedAtFive ==
    /\ call.op = "DriveDisc" /\ call.exc = "None"
    /\ call.val # <<>>
    /\ call.args.sub_stats = FourSubs

\* C5, as stated: a roll count outside 0..5 is always rejected as a validation failure and
\* never clamped, so neither a constructor call nor a value computation that is given such
\* a count returns normally.
C5_RollCountNeverClamped ==
    /\ (call.op = "DriveDisc" /\ AllSubStats(call.args.sub_stats) /\ ~RollCountsValid(call.args.sub_stats)) =>
          call.exc # "None"
    /\ (call.op = "get_value" /\ call.args.rolls \notin 0..5) => call.exc # "None"

\* C5, amended: DriveDisc(...) rejects a roll count outside 0..5 with a validation error
\* (the one about the roll count when every rule checked before it holds) and yields no
\* disc.  SubStatInstance.get_value on its own rejects nothing: for a count above 5 it
\* returns the value of 5 rolls, six times the base value, and for any other count,
\* negative ones included, the base value times (count + 1).
C5_RollCountRejectedByDiscOnly ==
    /\ (call.op = "DriveDisc" /\ AllSubStats(call.args.sub_stats) /\ ~RollCountsValid(call.args.sub_stats)) =>
          /\ DiscRejected
          /\ ( /\ SlotAndMainValid(call.args)
               /\ SubstatSetValid(call.args.main_stat_type, call.args.sub_stats) ) =>
                /\ call.msg.text = "Invalid number of rolls"
                /\ call.msg.n \notin 0..5
                /\ \E i \in 1..Len(call.args.sub_stats) :
                      /\ call.args.sub_stats[i].rolls = call.msg.n
                      /\ call.args.sub_stats[i].stat_type = call.msg.stat
                      /\ \A j \in 1..(i - 1) : call.args.sub_stats[j].rolls \in 0..5
    /\ call.op = "get_value" =>
          LET base == get_drive_substat_base_value(call.args.rarity, call.args.stat_type)
              unit == IF base = <<>> THEN 0 ELSE base[1]
          IN  /\ call.exc = "None"
              /\ call.val = IF call.args.rolls > 5 THEN unit * 6 ELSE unit * (call.args.rolls + 1)

\* C5 witness: get_value with 6 rolls returned six times a base value that is not zero
C5_Witness ==
    /\ call.op = "get_value" /\ call.exc = "None"
    /\ call.args.rolls = 6 /\ call.args.stat_type = "ATK" /\ call.args.rarity = "S"
    /\ call.val = 6 * SubstatTable["ATK"]["S"] /\ call.val > 0

\* C6: every constructed Drive Disc has at most 4 substats, of pairwise distinct kinds,
\* all substat kinds and none the main stat; a call that breaks one of the four
\* conditions raises a validation error and yields no disc.
C6_SubstatSetRules ==
    call.op = "DriveDisc" =>
        /\ call.exc = "None" =>
              /\ call.val # <<>>
              /\ SubstatSetValid(call.val[1].main_stat_type, call.val[1].sub_stats)
        /\ (AllSubStats(call.args.sub_stats)
            /\ ~SubstatSetValid(call.args.main_stat_type, call.args.sub_stats)) => DiscRejected
        /\ ~AllSubStats(call.args.sub_stats) => call.exc # "None" /\ call.val = <<>>

\* C6 witness: a list of five substats of distinct valid kinds was rejected for its length
C6_Witness ==
    /\ DiscRejected
    /\ Len(call.args.sub_stats) = 5
    /\ \A i, j \in 1..5 : i # j => call.args.sub_stats[i].stat_type # call.args.sub_stats[j].stat_type
    /\ call.msg.text = "Cannot have more than MAX_SUBSTATS_COUNT substats"

\* The total of a percent-scaled kind, base * (1 + percent / 100) + flat, in units of
\* 1/10000 for base, percent and flat in tenths
ScaledTotal(base, percent, flat) == base * (1000 + percent) + 1000 * flat

DiscValid(disc) ==
    /\ SlotAndMainValid(disc)
    /\ AllSubStats(disc.sub_stats)
    /\ SubstatSetValid(disc.main_stat_type, disc.sub_stats)
    /\ RollCountsValid(disc.sub_stats)
    /\ RollSum(disc.sub_stats) <= 5

\* The bonus record of the gear the caller holds with every disc's set taken away: the
\* W-Engine advanced stat and the main stats and substats of the discs
GearBonusWithoutSets ==
    AddDiscs(AddWEngine(AgentBonusStats, gear_engine), gear_discs, 1)

\* The number of held discs that reference the set, and whether the set has a recognized
\* 2-piece stat with a value
SetCount(name) == Cardinality({i \in 1..Len(gear_discs) : gear_discs[i][2].set_data = name})

RecognizedTwoPiece(name) ==
    /\ SetJson[name].two # <<>>
    /\ SetJson[name].two[1].stat \in Stat \ {"Unknown"}
    /\ SetJson[name].two[1].value.kind = "number"

QualifyingSets == {name \in DOMAIN SetJson : SetCount(name) >= 2 /\ RecognizedTwoPiece(name)}

\* The record after the 2-piece value of each of the sets was added once
RECURSIVE WithTwoPieceOnce(_, _)
WithTwoPieceOnce(bonus_stats, names) ==
    IF names = {} THEN bonus_stats
    ELSE LET name == CHOOSE n \in names : TRUE
         IN  WithTwoPieceOnce(add_stat(bonus_stats, SetJson[name].two[1].stat, SetJson[name].two[1].value.num),
                              names \ {name})

\* C1, as stated: once the caller has constructed an Agent over the gear it holds, the
\* construction has returned an agent whose total_stats is the combination of its base
\* stats with the bonus record collected from that gear.
C1_TotalStatsNeverStale ==
    call.op = "Agent" =>
        /\ agent.exc = "None"
        /\ agent.obj # <<>>
        /\ get_bonus_stats(agent.obj[1]).exc = "None"
        /\ total_stats(agent.obj[1]).val =
              <<from_base_and_bonus(AgentArena[agent.args[1]].base_stats,
                                    get_bonus_stats(agent.obj[1]).val[1])>>

C7_TwoPieceAppliedOnce ==
    /\ call.op = "get_active_set_counts" =>
          /\ call.exc = "None"
          /\ \A i \in 1..Len(call.val) :
                call.val[i][2] = Cardinality({j \in 1..Len(gear_discs) : gear_discs[j][2].set_data = call.val[i][1]})
    /\ call.op = "get_bonus_stats" =>
          /\ call.exc = "None"
          /\ call.val = <<WithTwoPieceOnce(GearBonusWithoutSets, QualifyingSets)>>

\* C8, as stated: when no set of the held discs qualifies (fewer than 2 discs, a complex
\* or absent 2-piece stat), the bonus record is the one of the same gear without any set;
\* no 4-piece bonus changes it.
C8_NothingButQualifyingTwoPiece ==
    (call.op = "get_bonus_stats" /\ QualifyingSets = {}) =>
        /\ call.exc = "None"
        /\ call.val = <<GearBonusWithoutSets>>

\* C10, as stated: without W-Engine and discs the bonus record is all zero, combining any
\* base stats with the all-zero record returns the base value of every additive and
\* percent-scaled kind, and an Agent constructed without gear reports its base stats.
C10_GearlessAgentReportsBase ==
    /\ \A name \in DOMAIN AgentArena :
          LET base == AgentArena[name].base_stats
              total == from_base_and_bonus(base, AgentBonusStats)
          IN  /\ total.hp = 1000 * base.hp /\ total.atk = 1000 * base.atk
              /\ total.defense = 1000 * base.defense
              /\ total.anomaly_mastery = 1000 * base.anomaly_mastery
              /\ total.crit_rate = 1000 * base.crit_rate /\ total.crit_dmg = 1000 * base.crit_dmg
              /\ total.anomaly_proficiency = 1000 * base.anomaly_proficiency
              /\ total.pen_ratio = 1000 * base.pen_ratio
              /\ total.energy_regen = 1000 * base.energy_regen
              /\ total.energy_limit = 1000 * base.energy_limit
    /\ (call.op = "get_bonus_stats" /\ gear_discs = <<>> /\ gear_engine = <<>>) =>
          call.exc = "None" /\ call.val = <<AgentBonusStats>>
    /\ (call.op = "Agent" /\ gear_discs = <<>> /\ gear_engine = <<>>) =>
          /\ agent.exc = "None"
          /\ agent.obj # <<>>
          /\ total_stats(agent.obj[1]).val =
                <<from_base_and_bonus(AgentArena[agent.args[1]].base_stats, AgentBonusStats)>>

\* C11, as stated: recomputing the total stats of an agent twice over unchanged base stats
\* and gear returns both times, and the second snapshot equals the first.
C11_RecalculationIdempotent ==
    call.op = "recalculate_total_stats" =>
        /\ call.exc = "None"
        /\ Len(call.val) = 2
        /\ call.val[1] = call.val[2]

\* The percent fields of a bonus record
PercentFields ==
    {"hp_percent", "atk_percent", "def_percent", "impact_percent", "anomaly_mastery_percent",
     "energy_regen_percent"}

\* C12: for CRIT Rate, CRIT DMG, Anomaly Proficiency, PEN Ratio and Energy Limit the total
\* is the base value plus the bonus of that same kind, whatever percent bonus and whatever
\* bonus of another kind the record carries.
C12_PureAdditiveTotals ==
    call.op = "from_base_and_bonus" =>
        LET base == call.args.base_stats
            bonus == call.args.bonus_stats
            total == call.val
        IN  /\ total.crit_rate = 1000 * (base.crit_rate + bonus.crit_rate)
            /\ total.crit_dmg = 1000 * (base.crit_dmg + bonus.crit_dmg)
            /\ total.anomaly_proficiency = 1000 * (base.anomaly_proficiency + bonus.anomaly_proficiency)
            /\ total.pen_ratio = 1000 * (base.pen_ratio + bonus.pen_ratio)
            /\ total.energy_limit = 1000 * (base.energy_limit + bonus.energy_limit)

\* C12 witness: a base PEN Ratio and a PEN Ratio bonus were combined in the presence of a
\* percent bonus, and the total PEN Ratio is their sum
C12_Witness ==
    /\ call.op = "from_base_and_bonus"
    /\ call.args.base_stats.pen_ratio > 0
    /\ call.args.bonus_stats.pen_ratio > 0
    /\ \E f \in PercentFields : call.args.bonus_stats[f] > 0
    /\ call.val.pen_ratio = 1000 * (call.args.base_stats.pen_ratio + call.args.bonus_stats.pen_ratio)

\* C13: for PEN and the five elemental DMG kinds the total is the bonus value alone, so it
\* does not depend on any base stat and is zero when the bonus record holds nothing of
\* that kind.
C13_BonusOnlyTotals ==
    call.op = "from_base_and_bonus" =>
        LET bonus == call.args.bonus_stats
            total == call.val
        IN  /\ total.pen = 1000 * bonus.pen
            /\ total.physical_dmg = 1000 * bonus.physical_dmg
            /\ total.fire_dmg = 1000 * bonus.fire_dmg
            /\ total.ice_dmg = 1000 * bonus.ice_dmg
            /\ total.electric_dmg = 1000 * bonus.electric_dmg
            /\ total.ether_dmg = 1000 * bonus.ether_dmg

\* C13 witness: a flat PEN bonus and a Fire DMG bonus were combined with base stats that
\* have a PEN Ratio, and the totals are the bonus values
C13_Witness ==
    /\ call.op = "from_base_and_bonus"
    /\ call.args.base_stats.pen_ratio > 0
    /\ call.args.bonus_stats.pen > 0
    /\ call.args.bonus_stats.fire_dmg > 0
    /\ call.val.pen = 1000 * call.args.bonus_stats.pen
    /\ call.val.fire_dmg = 1000 * call.args.bonus_stats.fire_dmg

\* The maximum Drive Disc level of the rarities B, A and S
MaxDiscLevel == [rarity \in {"B", "A", "S"} |-> CASE rarity = "B" -> 9 [] rarity = "A" -> 12 [] rarity = "S" -> 15]

\* level brought into lo..hi
ClampedTo(level, lo, hi) == IF level < lo THEN lo ELSE IF level > hi THEN hi ELSE level

\* C14: a Drive Disc of rarity B, A or S that satisfies the rules of slot, main stat and
\* substats is constructed whatever its level, and the stored level is the input clamped
\* to 0..max(rarity); an in-range level is stored unchanged.
C14_DiscLevelClampedNotRejected ==
    (/\ call.op = "DriveDisc"
     /\ call.args.rarity \in DOMAIN MaxDiscLevel
     /\ DiscValid(call.args)) =>
        /\ call.exc = "None"
        /\ call.val # <<>>
        /\ call.val[1].level = ClampedTo(call.args.level, 0, MaxDiscLevel[call.args.rarity])

\* C14 witness: an S disc given level 20 was constructed with level 15
C14_Witness ==
    /\ call.op = "DriveDisc"
    /\ call.args.rarity = "S"
    /\ call.args.level = 20
    /\ call.exc = "None"
    /\ call.val[1].level = 15

\* Whether the substat file has a base value for the kind at the rarity
HasSubstatBase(rarity, stat_type) ==
    stat_type \in DOMAIN SubstatTable /\ rarity \in DOMAIN SubstatTable[stat_type]

\* C15: for a roll count in 0..5, get_value returns base_value(rarity, kind) * (rolls + 1)
\* when the substat file has a base value for the pair, and 0 without raising when it has
\* none.
C15_SubstatValueScalesWithRolls ==
    (call.op = "get_value" /\ call.args.rolls \in 0..5) =>
        /\ call.exc = "None"
        /\ call.val = IF HasSubstatBase(call.args.rarity, call.args.stat_type)
                      THEN SubstatTable[call.args.stat_type][call.args.rarity] * (call.args.rolls + 1)
                      ELSE 0

\* C15 witness: an A-rarity HP substat with 3 rolls returned four times its base value 79
C15_Witness ==
    /\ call.op = "get_value"
    /\ call.args = [stat_type |-> "HP", rolls |-> 3, rarity |-> "A"]
    /\ call.val = 4 * 790

\* C15, the missing entry: a B-rarity PEN substat, for which the file has no base value,
\* returned 0
C15_MissingBaseIsZero ==
    /\ call.op = "get_value"
    /\ call.args.stat_type = "PEN"
    /\ call.args.rarity = "B"
    /\ call.args.rolls = 2
    /\ call.exc = "None"
    /\ call.val = 0

\* The entry of the main-stat file the loader gives for a disc at a level, <<>> when absent
MainStatAt(disc, level) == get_drive_main_stat_value(disc.rarity, disc.main_stat_type, level)

\* The entry at the maximum level of the disc's rarity, <<>> when absent or when the rarity
\* has no maximum level
MainStatAtMax(disc) ==
    IF disc.rarity \in DOMAIN MaxDiscLevel THEN MainStatAt(disc, MaxDiscLevel[disc.rarity]) ELSE <<>>

C16_BothMissingIsZero ==
    /\ call.op = "get_main_stat_value"
    /\ call.args.rarity = "B"
    /\ call.args.main_stat_type = "Impact"
    /\ call.val = 0

\* C17: constructing an equipped W-Engine returns for every level, modification and phase;
\* the stored modification is the input clamped to 0..5, the stored phase the input
\* clamped to 1..5, and the stored level lies in the band of the stored modification,
\* [modification * 10, modification * 10 + 10], hence in 0..60.
C17_EngineFieldsInRange ==
    (call.op = "EquippedWEngine" /\ call.val # <<>>) =>
        LET engine == call.val[1] IN
        /\ call.exc = "None"
        /\ engine.modification = ClampedTo(call.args.modification, 0, 5)
        /\ engine.phase = ClampedTo(call.args.phase, 1, 5)
        /\ engine.modification * 10 <= engine.level
        /\ engine.level <= engine.modification * 10 + 10
        /\ engine.level \in 0..60
        /\ (call.args.modification = 6 /\ call.args.level = 50) => engine.level = 50

\* C17 witness: modification 5 with level 70 was stored as level 60, modification 5
C17_Witness ==
    /\ call.op = "EquippedWEngine"
    /\ call.args.modification = 5
    /\ call.args.level = 70
    /\ call.val # <<>>
    /\ call.val[1].level = 60
    /\ call.val[1].modification = 5

\* C18, as stated: the stored level is the value of the band of the stored modification
\* nearest to the input level: an in-band level is stored unchanged (level 0 with
\* modification 0 included), a lower one becomes the band minimum, a higher one the band
\* maximum.
C18_EngineLevelNearestInBand ==
    (call.op = "EquippedWEngine" /\ call.val # <<>>) =>
        LET engine == call.val[1] IN
        engine.level = ClampedTo(call.args.level, engine.modification * 10, engine.modification * 10 + 10)

\* C19, as stated: Agent(...) returns an agent whatever the progression values; its
\* promotion is the input clamped to 0..5, its mindscape lies in 0..6 and its level lies in
\* the band [promotion * 10, promotion * 10 + 10] of the stored promotion: promotion 1 with
\* level 25 stores 20, promotion 1 with level 15 stores 15.
C19_AgentProgressionClamped ==
    call.op = "Agent" =>
        /\ agent.exc = "None"
        /\ agent.obj # <<>>
        /\ LET self == agent.obj[1]
               level == agent.args[2]
               promotion == agent.args[3]
           IN  /\ self.promotion = ClampedTo(promotion, 0, 5)
               /\ self.mindscape \in 0..6
               /\ self.promotion * 10 <= self.level
               /\ self.level <= self.promotion * 10 + 10
               /\ (promotion = 1 /\ level = 25) => self.level = 20
               /\ (promotion = 1 /\ level = 15) => self.level = 15

\* C20: the passive value and the formatted passive description of an equipped W-Engine
\* are those of the phase given at construction clamped into 1..5: the passive is asked
\* for a phase in 1..5, so an engine given phase 0 reads phase 1 and an engine given phase
\* 6 reads phase 5.
C20_PassiveLookupUsesClampedPhase ==
    /\ call.op = "get_passive_value" =>
          LET passive == WEnginePassiveArena[call.args.engine.wengine_data]
              phase == ClampedTo(call.args.engine.phase, 1, 5)
          IN  /\ call.exc = "None"
              /\ passive # <<>> =>
                    call.val = WEnginePassive_get_passive_value(passive[1], phase, call.args.value_key)
    /\ call.op = "get_formatted_passive_description" =>
          LET passive == WEnginePassiveArena[call.args.engine.wengine_data]
              phase == ClampedTo(call.args.engine.phase, 1, 5)
          IN  /\ call.exc = "None"
              /\ passive # <<>> => call.val = get_formatted_description(passive[1], phase)

\* C20 witness: an engine given phase 0 returned the phase 1 value 20 of physical_dmg
C20_Witness ==
    /\ call.op = "get_passive_value"
    /\ call.args.engine.wengine_data = "Steel Cushion"
    /\ call.args.engine.phase = 0
    /\ call.args.value_key = "physical_dmg"
    /\ call.val = <<200>>

\* C20, the upper side: an engine given phase 6 formats its description with the phase 5
\* values 40 and 50
C20_PhaseSixReadsPhaseFive ==
    /\ call.op = "get_formatted_passive_description"
    /\ call.args.engine.wengine_data = "Steel Cushion"
    /\ call.args.engine.phase = 6
    /\ call.val = <<"Increases Physical DMG by 40%. The equipper's DMG increases by 50% when hitting the enemy from behind.">>

(***************************************************************************)
(* C21: parsing a string into an enumeration member                        *)
(***************************************************************************)

\* value is label in some casing: same length, and each character is the lower or the upper
\* form of the label's character
IsCasingOf(value, label) ==
    /\ Len(value) = Len(label)
    /\ \A i \in 1..Len(label) : value[i] \in {lower_char(label[i]), upper_char(label[i])}

\* The members of cls one of whose casings is value
MembersSpelled(cls, value) ==
    {i \in 1..Len(EnumMembers[cls]) : IsCasingOf(value, EnumMembers[cls][i].value)}

\* C21: parsing a string into a Stat or a Rarity never raises; a string that is a member's
\* label in any casing yields that member, and every other string yields UNKNOWN
C21_FromStringTotalCaseInsensitive ==
    (call.op = "from_string" /\ call.args.value # NotAStr) =>
        /\ call.exc = "None"
        /\ \A i \in MembersSpelled(call.args.cls, call.args.value) :
              call.val = <<EnumMembers[call.args.cls][i].name>>
        /\ MembersSpelled(call.args.cls, call.args.value) = {} => call.val = <<"UNKNOWN">>

\* "hP%" is parsed as Stat.HP_PERCENT
C21_Witness ==
    /\ call.op = "from_string"
    /\ call.args = [cls |-> "Stat", value |-> <<"h", "P", "%">>]
    /\ call.exc = "None"
    /\ call.val = <<"HP_PERCENT">>

\* A string that is no label of the class is parsed as UNKNOWN: "s" is a Rarity and no Stat
C21_OtherStringIsUnknown ==
    /\ call.op = "from_string"
    /\ call.args = [cls |-> "Stat", value |-> <<"s">>]
    /\ call.val = <<"UNKNOWN">>

\* The labels of StatMembers are the members the rest of the model names by their label
C21_StatLabelsAreStat == {Join(StatMembers[i].value) : i \in 1..Len(StatMembers)} = Stat

(***************************************************************************)
(* C22: the progression values after construction and after assignments    *)
(***************************************************************************)

\* promotion in 0..5, mindscape in 0..6, level inside the band of the promotion
ProgressionInRange(p) ==
    /\ p.promotion \in 0..5
    /\ p.mindscape \in 0..6
    /\ p.promotion * 10 <= p.level
    /\ p.level <= p.promotion * 10 + 10

\* C22, as stated: construction returns an agent whose progression is in range, and after
\* an assignment to level, promotion or mindscape the agent holds the clamped value and its
\* level lies inside the band of the promotion it then holds.
C22_ProgressionAlwaysInRange ==
    /\ call.op = "Agent" =>
          agent.obj # <<>> /\ ProgressionInRange(Progression(agent.obj[1]))
    /\ call.op = "setattr" =>
          /\ ProgressionInRange(call.val[1])
          /\ call.args[1] = "promotion" => call.val[1].promotion = ClampedTo(call.args[2], 0, 5)
          /\ call.args[1] = "mindscape" => call.val[1].mindscape = ClampedTo(call.args[2], 0, 6)

(***************************************************************************)
(* C23: the slots of the equipped discs                                    *)
(***************************************************************************)

\* The items of a slot-to-disc map: every key is the slot of its disc and lies in 1..6, and
\* no two discs share a slot
SlotsDistinctAndKeyed(discs) ==
    /\ Len(discs) <= 6
    /\ \A i \in 1..Len(discs) : discs[i][1] = discs[i][2].slot /\ discs[i][1] \in 1..6
    /\ \A i, j \in 1..Len(discs) : discs[i][2].slot = discs[j][2].slot => i = j

\* C23, as stated: the discs an agent holds occupy pairwise distinct slots within 1..6,
\* at most six of them, each stored under the key equal to its own slot.
C23_DiscsUnderTheirOwnSlot ==
    call.op = "set_drive_discs" => SlotsDistinctAndKeyed(call.val[1].drive_discs)

(***************************************************************************)
(* C24: equip then unequip, and independence of the history                *)
(***************************************************************************)

\* The gear of the agent between the equip and the unequip of a round trip
GearWhileEquipped(args) ==
    [w_engine |-> IF args.item.name = "w_engine" THEN args.value ELSE <<>>,
     drive_discs |-> IF args.item.name = "drive_discs" THEN args.value ELSE args.gear]

\* The totals of an agent that was handed its gear at once: <<>> when they cannot be computed
TotalsFromScratch(w_engine, drive_discs) ==
    SnapshotAfter(recalculate_total_stats(ReceiverOf("Ellen", w_engine, drive_discs)))

\* C24, as stated: an agent over the gear exists; equipping an item and unequipping it
\* raises nothing and restores the snapshot read before the equip; and the snapshot read
\* while the item is equipped is the one an agent handed that gear at once reports, a
\* snapshot that exists.
C24_TotalsIndependentOfHistory ==
    call.op = "round_trip" =>
        /\ Agent("Ellen", 15, 1, 0, <<>>, call.args.gear, <<>>).exc = "None"
        /\ call.exc = "None"
        /\ call.val[1].after = call.val[1].before
        /\ call.val[1].equipped # <<>>
        /\ call.val[1].equipped =
              TotalsFromScratch(GearWhileEquipped(call.args).w_engine,
                                GearWhileEquipped(call.args).drive_discs)

(***************************************************************************)
(* C25: the order in which the contributions are accumulated               *)
(***************************************************************************)

\* The items of a disc dict in the order of their keys
InSlotOrder(discs) ==
    [i \in 1..Len(discs) |->
        CHOOSE item \in {discs[j] : j \in 1..Len(discs)} :
            Cardinality({j \in 1..Len(discs) : discs[j][1] < item[1]}) = i - 1]

\* The number of DEF% substats on the discs
RECURSIVE DefPercentContributions(_)
DefPercentContributions(discs) ==
    IF discs = <<>> THEN 0
    ELSE Cardinality({i \in 1..Len(Head(discs)[2].sub_stats) :
                         Head(discs)[2].sub_stats[i].stat_type = "DEF%"})
         + DefPercentContributions(Tail(discs))

\* Two floats are equal or neighbours: they differ by at most one unit in the last place
WithinOneUlp(a, b) ==
    \/ a = b
    \/ ExactSum(a, BitAt(TopBit(b) - 52)) = b
    \/ ExactSum(b, BitAt(TopBit(a) - 52)) = a

FieldOfKind ==
    [stat \in (Stat \cup StatUndeclared) \ {"Unknown"} |->
        CASE stat = "HP" -> "hp" [] stat = "HP%" -> "hp_percent"
          [] stat = "ATK" -> "atk" [] stat = "ATK%" -> "atk_percent"
          [] stat = "DEF" -> "defense" [] stat = "DEF%" -> "def_percent"
          [] stat = "Impact" -> "impact" [] stat = "Impact%" -> "impact_percent"
          [] stat = "CRIT Rate" -> "crit_rate" [] stat = "CRIT DMG" -> "crit_dmg"
          [] stat = "Anomaly Mastery" -> "anomaly_mastery"
          [] stat = "Anomaly Mastery%" -> "anomaly_mastery_percent"
          [] stat = "Anomaly Proficiency" -> "anomaly_proficiency"
          [] stat = "PEN Ratio" -> "pen_ratio" [] stat = "PEN" -> "pen"
          [] stat = "Energy Regen" -> "energy_regen" [] stat = "Energy Regen%" -> "energy_regen_percent"
          [] stat = "Energy Generation Rate" -> "energy_generation_rate"
          [] stat = "Energy Limit" -> "energy_limit"
          [] stat = "Physical DMG" -> "physical_dmg" [] stat = "Fire DMG" -> "fire_dmg"
          [] stat = "Ice DMG" -> "ice_dmg" [] stat = "Electric DMG" -> "electric_dmg"
          [] stat = "Ether DMG" -> "ether_dmg"]

C26_UnknownIsNoOp ==
    /\ call.op = "add_stat"
    /\ call.args.stat = "Unknown" /\ call.args.value = 75 /\ call.args.bonus_stats.ether_dmg = 241
    /\ call.val = <<call.args.bonus_stats>>

(***************************************************************************)
(* C27: the core stat in the totals                                        *)
(***************************************************************************)

\* The field of the totals that a core stat of the arena belongs to
CoreStatField == [stat \in {"ATK", "CRIT Rate"} |-> IF stat = "ATK" THEN "atk" ELSE "crit_rate"]

\* The totals of base stats and gear alone
TotalsOfGearAlone(name, gear) ==
    from_base_and_bonus(AgentArena[name].base_stats,
                        get_bonus_stats(ReceiverWith(gear.w_engine, gear.drive_discs)).val[1])

\* C27, as stated: once a core-skill level above zero is set and the totals are
\* recalculated one or more times, the total of the core stat's kind holds the core stat's
\* value on top of what base stats and gear give, and it is the same after every
\* recalculation.
C27_CoreStatAppliedOnce ==
    (call.op = "set_core_skill" /\ call.args.level > 0) =>
        LET core == AgentArena[call.args.name].core_stat
            field == CoreStatField[core.stat]
        IN  /\ call.exc = "None"
            /\ Len(call.val) = call.args.times + 1
            /\ \A i \in 2..Len(call.val) :
                  /\ call.val[i][1][field] >= TotalsOfGearAlone(call.args.name, call.args.gear)[field] + 1000 * core.value
                  /\ call.val[i] = call.val[2]

\* What the code does: every snapshot, before and after, is the totals of base stats and
\* gear alone
C27_CoreStatNeverApplied ==
    call.op = "set_core_skill" =>
        /\ call.exc = "None"
        /\ \A i \in 1..Len(call.val) : call.val[i] = <<TotalsOfGearAlone(call.args.name, call.args.gear)>>

\* The test's agent: base CRIT Rate 5.0, core stat CRIT Rate 4.8, core skill 3 set in
\* place, two recalculations: CRIT Rate is 5.0 where the test expects 14.6
C27_TestAgentKeepsBase ==
    /\ call.op = "set_core_skill"
    /\ call.args = [name |-> "Anby", gear |-> [w_engine |-> <<>>, drive_discs |-> <<>>],
                    how |-> "in_place", level |-> 3, times |-> 2]
    /\ call.val[3][1].crit_rate = 50000

(***************************************************************************)
(* C28: what a recomputation changes                                       *)
(***************************************************************************)

\* The fields of an agent other than the cache
AgentFieldsButCache ==
    {"base_agent_data", "level", "promotion", "mindscape", "w_engine", "drive_discs", "skill_levels"}

\* C28: a recomputation or a read of total_stats leaves the agent's base data, level,
\* promotion, mindscape, W-Engine, discs and skill levels as they were, whether it returns
\* or raises; only the cached snapshot can differ afterwards, a raising call leaves it
\* too, and a read on a filled cache changes nothing at all.
C28_RecomputeTouchesOnlyCache ==
    call.op = "recompute" =>
        LET before == call.val[1]
            after == call.val[2]
        IN  /\ \A f \in AgentFieldsButCache : after[f] = before[f]
            /\ call.exc # "None" => after = before
            /\ (call.args.op = "total_stats" /\ before.cached_total_stats # <<>>) => after = before

\* A recalculation on an agent with a disc and a W-Engine whose cache held the totals of no
\* gear: the snapshot changed, the gear and the progression did not
C28_Witness ==
    /\ call.op = "recompute" /\ call.args.op = "recalculate_total_stats"
    /\ call.exc = "None"
    /\ call.val[1].drive_discs # <<>> /\ call.val[1].w_engine # <<>>
    /\ call.val[1].cached_total_stats # <<>>
    /\ call.val[2].cached_total_stats # call.val[1].cached_total_stats
    /\ \A f \in AgentFieldsButCache : call.val[2][f] = call.val[1][f]

\* A recalculation that raises (the disc's set record cannot be hashed) leaves the agent
\* and its stale cache as they were
C28_RaisingRecomputeLeavesAll ==
    /\ call.op = "recompute" /\ call.args.op = "recalculate_total_stats"
    /\ call.exc = "TypeError"
    /\ call.val[1].cached_total_stats # <<>>
    /\ call.val[2] = call.val[1]

(***************************************************************************)
(* C29: what the totals do not depend on                                   *)
(***************************************************************************)

\* The advanced stat of an agent's W-Engine, <<>> without W-Engine or without advanced stat
AdvancedStatOf(w_engine) == IF w_engine = <<>> THEN <<>> ELSE WEngineArena[w_engine[1].wengine_data].advanced_stat

C29_BaseAtkNotCounted ==
    /\ call.op = "compare_total_stats"
    /\ call.args.first.w_engine # <<>> /\ call.args.second.w_engine # <<>>
    /\ get_current_base_atk(call.args.first.w_engine[1]) = 4200
    /\ get_current_base_atk(call.args.second.w_engine[1]) = 1000
    /\ call.val[1] # <<>> /\ call.val[1] = call.val[2]
    /\ call.val[1][1].atk = TotalsOfGearAlone(call.args.name, [w_engine |-> <<>>, drive_discs |-> call.args.drive_discs]).atk

\* Two agents whose W-Engine advanced stats differ have different totals
C29_AdvancedStatCounts ==
    /\ call.op = "compare_total_stats"
    /\ AdvancedStatOf(call.args.first.w_engine) # AdvancedStatOf(call.args.second.w_engine)
    /\ call.val[1] # call.val[2]

(***************************************************************************)
(* C30: the table key of the main-stat lookup                              *)
(***************************************************************************)

\* The five elemental DMG kinds
ElementalKinds == {"Physical DMG", "Fire DMG", "Ice DMG", "Electric DMG", "Ether DMG"}

C30_OwnLabelMisses ==
    /\ call.op = "get_drive_main_stat_value"
    /\ call.args = [rarity |-> "S", stat_type |-> "PEN", level |-> 15]
    /\ call.val = <<>>

====
